---- MODULE Spec2Model ----
(***************************************************************************)
(* A model of the editbox poster gallery: the user dashboard               *)
(* (customization editor and gallery download counter), the admin catalog  *)
(* (bulk fetch + realtime merge) and the upload pipeline (admin form and   *)
(* POST /api/upload).                                                      *)
(*                                                                         *)
(* The four parts share one state but are explored by four specifications  *)
(* (SpecEdit, SpecDl, SpecAdmin, SpecUpload), each leaving the variables   *)
(* of the other parts unchanged.                                           *)
(*                                                                         *)
(* Numbers: JavaScript numbers are modelled as exact rationals <<n, d>>    *)
(* in lowest terms with d > 0; the zoom level, which the code only ever    *)
(* changes in steps of 0.1, is kept as an integer number of tenths.        *)
(***************************************************************************)
EXTENDS Integers, Sequences, FiniteSets, TLC

VARIABLES
  \* ---- user dashboard: customization session (UserDashboard state) ----
  editingPoster,   \* NULL or the poster snapshot taken by the Edit button
  name,            \* editFormData.name
  image,           \* editFormData.image: NULL or a file
  textPosition,    \* editFormData.textPosition  [x, y] (rationals)
  imagePosition,   \* editFormData.imagePosition [x, y] (rationals)
  imageSize,       \* editFormData.imageSize [width, height] (rationals)
  zoomLevel,       \* zoomLevel, in tenths (10 = 1.0)
  textBox,         \* textRef.current offsetWidth/offsetHeight as laid out
  fontSize,        \* editFormData.fontSize
  textRotation,    \* editFormData.textRotation (degrees)
  imageRotation,   \* editFormData.imageRotation (degrees)
  listeners,       \* window-level gesture listeners currently attached
  editOps,         \* number of editor operations performed (bounded)
  \* ---- user dashboard: gallery download and customized download ----
  db,              \* backend table: download_count per poster id
  posters,         \* UserDashboard state `posters`: the local catalog
  countdowns,      \* UserDashboard state `countdowns`: id -> seconds left
  errorMessage,    \* UserDashboard state `errorMessage`: NULL or a message
  dl,              \* per handleDownload call in progress: position and data
  remote,          \* a handleDownload call running in another browser
  save,            \* handleEditSave in progress: position and closure
  saves,           \* number of file saves triggered (link.click())
  \* ---- user dashboard: gallery filter and sort ----
  searchQuery,     \* UserDashboard state `searchQuery` (characters)
  selectedCategory,\* UserDashboard state `selectedCategory`
  sortBy,          \* UserDashboard state `sortBy`
  filteredPosters, \* UserDashboard state `filteredPosters`: the list shown
  \* ---- admin catalog ----
  table,           \* backend posters table: sequence of rows, newest first
  adminPosters,    \* AdminPosters state `posters`
  adminLoading,    \* AdminPosters state `loading`
  adminError,      \* AdminPosters state `error`
  fetchPc,         \* fetchPosters: "sent", "answered", "done"
  fetchData,       \* the select's answer, in flight to the client
  subscribed,      \* the realtime channel is joined
  mounted,         \* the AdminPosters view exists (its effect is not cleaned up)
  events,          \* realtime events in flight, in commit order
  lastEvent,       \* the event the handler was last called with
  nextId,          \* next server-assigned id
  \* ---- upload pipeline ----
  formData,        \* AdminPosters state `formData`
  saving,          \* AdminPosters state `saving`
  uploadProgress,  \* AdminPosters state `uploadProgress`
  progressTimers,  \* submissions whose progress interval is running
  request,         \* NULL or the multipart request POST is serving
  postPc,          \* position of POST /api/upload
  storage,         \* object storage: the objects uploaded
  rows,            \* rows inserted by POST, in insertion order
  response,        \* NULL or the last HTTP response of POST
  submits          \* number of requests and form submissions (bounded)

styleVars == <<fontSize, textRotation, imageRotation>>
editVars == <<editingPoster, name, image, textPosition, imagePosition,
              imageSize, zoomLevel, textBox, styleVars, listeners, editOps>>
dlVars == <<db, posters, countdowns, errorMessage, dl, remote, save, saves>>
adminVars == <<table, adminPosters, adminLoading, adminError, fetchPc,
               fetchData, subscribed, mounted, events, lastEvent, nextId>>
adminRest == <<table, adminPosters, adminLoading, fetchPc, fetchData,
               subscribed, mounted, events, lastEvent, nextId>>
uploadVars == <<formData, saving, uploadProgress, progressTimers, request,
                postPc, storage, rows, response, submits>>
filterVars == <<searchQuery, selectedCategory, sortBy, filteredPosters>>
vars == <<editVars, dlVars, adminVars, uploadVars, filterVars>>

\* JavaScript's null: for object-valued state and for message-valued state.
NULL == [null |-> TRUE]
NoMessage == "null"

(***************************************************************************)
(* Exact rational arithmetic (the model of JavaScript's numbers).          *)
(***************************************************************************)
Abs(n) == IF n < 0 THEN -n ELSE n

RECURSIVE Gcd(_, _)
Gcd(a, b) == IF b = 0 THEN a ELSE Gcd(b, a % b)

\* n/d in lowest terms, d > 0.
Rat(n, d) ==
  LET g == Gcd(Abs(n), Abs(d))
      s == IF d < 0 THEN -1 ELSE 1
  IN  <<(s * n) \div g, (s * d) \div g>>

R(n) == <<n, 1>>
RAdd(p, q) == Rat(p[1] * q[2] + q[1] * p[2], p[2] * q[2])
RSub(p, q) == Rat(p[1] * q[2] - q[1] * p[2], p[2] * q[2])
RMul(p, q) == Rat(p[1] * q[1], p[2] * q[2])
RDiv(p, q) == Rat(p[1] * q[2], p[2] * q[1])
RLe(p, q) == p[1] * q[2] <= q[1] * p[2]
RMax(p, q) == IF RLe(p, q) THEN q ELSE p
RMin(p, q) == IF RLe(p, q) THEN p ELSE q

\* The zoom level as a number: tenths / 10.
Zoom(z) == Rat(z, 10)

(***************************************************************************)
(* Bounds of the exploration.                                              *)
(***************************************************************************)
MaxEditOps == 4      \* editor operations explored per behaviour
MaxListeners == 2    \* gestures started without an intervening pointer-up
MaxCount == 2        \* download_count values explored: 0..MaxCount

\* Pointer coordinates (clientX / clientY) and per-event drag deltas fed in.
Pointer == {0, 60}
DragDeltas == {-30, 45}
\* Boxes the browser lays the text layer out in (offsetWidth, offsetHeight).
TextBoxes == {<<80, 28>>, <<160, 40>>}

PosterIds == {1, 2}

(***************************************************************************)
(* User dashboard: the customization session.                              *)
(***************************************************************************)
CanvasWidth == 400
CanvasHeight == 280
MinImageSize == 50
ZoomMin == 5
ZoomMax == 30

DefaultTextPosition == [x |-> R(200), y |-> R(240)]
DefaultImagePosition == [x |-> R(50), y |-> R(180)]
DefaultImageSize == [width |-> R(100), height |-> R(100)]
DefaultZoom == 10
DefaultFontSize == 24
MinFontSize == 10

\* The catalog a dashboard shows once its initial fetch has been applied.
\* Text is a sequence of characters; the three categories and 'All'.
Festival == <<"F", "e", "s", "t", "i", "v", "a", "l">>
Birthday == <<"B", "i", "r", "t", "h", "d", "a", "y">>
Marriage == <<"M", "a", "r", "r", "i", "a", "g", "e">>
All == <<"A", "l", "l">>

InitialCatalog ==
  << [id |-> 1, is_editable |-> TRUE,  download_count |-> 0,
      title |-> <<"A", "b", "c">>, category |-> Festival, created_at |-> 2],
     [id |-> 2, is_editable |-> FALSE, download_count |-> 0,
      title |-> <<"P", "a", "r", "t", "y">>, category |-> Birthday,
      created_at |-> 1] >>

ClampMove_noZoom(pos, delta, scaled, limit, z) ==
  RMax(R(0), RMin(RSub(R(limit), scaled), RAdd(pos, R(delta))))

\* Math.max(0, Math.min(limit - scaled, pos + delta / zoom))
ClampMove(pos, delta, scaled, limit, z) ==
  RMax(R(0), RMin(RSub(R(limit), scaled), RAdd(pos, RDiv(R(delta), Zoom(z)))))

\* Edit button: setEditingPoster(poster), offered for is_editable posters.
OpenEdit(i) ==
  /\ editingPoster = NULL
  /\ i \in 1..Len(posters)
  /\ posters[i].is_editable
  /\ editingPoster' = posters[i]
  /\ UNCHANGED <<name, image, textPosition, imagePosition, imageSize,
                 zoomLevel, textBox, listeners, editOps>>
  /\ UNCHANGED styleVars

\* handleEditInputChange for the "name" field; the browser lays the text
\* layer out again (it is rendered only when name is non-empty).
SetName(v, box) ==
  /\ editingPoster # NULL
  /\ editOps < MaxEditOps
  /\ v # name
  /\ name' = v
  /\ textBox' = IF v = "" THEN <<0, 0>> ELSE box
  /\ editOps' = editOps + 1
  /\ UNCHANGED <<editingPoster, image, textPosition, imagePosition,
                 imageSize, zoomLevel, listeners>>
  /\ UNCHANGED styleVars

\* handleEditInputChange for the "image" field: a file over 5MB is refused
\* with an error, a PNG is taken, anything else clears the image.
SetImage(file) ==
  /\ editingPoster # NULL
  /\ editOps < MaxEditOps
  /\ IF file.big
       THEN /\ errorMessage' = "Uploaded image exceeds 5MB limit."
            /\ image' = image
       ELSE /\ image' = IF file.type = "image/png" THEN file ELSE NULL
            /\ UNCHANGED errorMessage
  /\ editOps' = editOps + 1
  /\ UNCHANGED <<editingPoster, name, textPosition, imagePosition,
                 imageSize, zoomLevel, textBox, listeners>>
  /\ UNCHANGED styleVars

ImageFiles == { [type |-> "image/png", big |-> FALSE],
                [type |-> "image/jpeg", big |-> FALSE],
                [type |-> "image/png", big |-> TRUE] }

handleTextDrag(dx, dy) ==
  /\ editingPoster # NULL
  /\ name # ""
  /\ editOps < MaxEditOps
  /\ LET scaledWidth == RMul(R(textBox[1]), Zoom(zoomLevel))
         scaledHeight == RMul(R(textBox[2]), Zoom(zoomLevel))
         newX == ClampMove(textPosition.x, dx, scaledWidth, CanvasWidth, zoomLevel)
         newY == ClampMove(textPosition.y, dy, scaledHeight, CanvasHeight, zoomLevel)
     IN  textPosition' = [x |-> newX, y |-> newY]
  /\ editOps' = editOps + 1
  /\ UNCHANGED <<editingPoster, name, image, imagePosition, imageSize,
                 zoomLevel, textBox, listeners>>
  /\ UNCHANGED styleVars

handleImageDrag(dx, dy) ==
  /\ editingPoster # NULL
  /\ image # NULL
  /\ editOps < MaxEditOps
  /\ LET scaledWidth == RMul(imageSize.width, Zoom(zoomLevel))
         scaledHeight == RMul(imageSize.height, Zoom(zoomLevel))
         newX == ClampMove(imagePosition.x, dx, scaledWidth, CanvasWidth, zoomLevel)
         newY == ClampMove(imagePosition.y, dy, scaledHeight, CanvasHeight, zoomLevel)
     IN  imagePosition' = [x |-> newX, y |-> newY]
  /\ editOps' = editOps + 1
  /\ UNCHANGED <<editingPoster, name, image, textPosition, imageSize,
                 zoomLevel, textBox, listeners>>
  /\ UNCHANGED styleVars

\* The Image Size buttons call this with (-10, -10) and (10, 10).
handleImageSizeChange(deltaWidth, deltaHeight) ==
  /\ editingPoster # NULL
  /\ image # NULL
  /\ editOps < MaxEditOps
  /\ imageSize' =
       [width |-> RMax(R(MinImageSize), RAdd(imageSize.width, R(deltaWidth))),
        height |-> RMax(R(MinImageSize), RAdd(imageSize.height, R(deltaHeight)))]
  /\ editOps' = editOps + 1
  /\ UNCHANGED <<editingPoster, name, image, textPosition, imagePosition,
                 zoomLevel, textBox, listeners>>
  /\ UNCHANGED styleVars

\* handleResizeStart: the closure keeps the pointer position, the image size
\* and the zoom level of the render it was created in, and four window
\* listeners are attached (modelled as one entry of `listeners`).
handleResizeStart(handle, startX, startY) ==
  /\ editingPoster # NULL
  /\ image # NULL
  /\ editOps < MaxEditOps
  /\ Len(listeners) < MaxListeners
  /\ listeners' = Append(listeners,
        [kind |-> "resize", handle |-> handle, startX |-> startX,
         startY |-> startY, startWidth |-> imageSize.width,
         startHeight |-> imageSize.height, zoom |-> zoomLevel])
  /\ editOps' = editOps + 1
  /\ UNCHANGED <<editingPoster, name, image, textPosition, imagePosition,
                 imageSize, zoomLevel, textBox>>
  /\ UNCHANGED styleVars

ResizeUpdate_noRatio(l, clientX, clientY, prevPos) ==
  LET deltaX == RDiv(R(clientX - l.startX), Zoom(l.zoom))
      deltaY == RDiv(R(clientY - l.startY), Zoom(l.zoom))
      newWidth == IF l.handle = "bottom-right"
                    THEN RMax(R(MinImageSize), RAdd(l.startWidth, deltaX))
                    ELSE RMax(R(MinImageSize), RSub(l.startWidth, deltaX))
      newHeight == IF l.handle = "bottom-right"
                     THEN RMax(R(MinImageSize), RAdd(l.startHeight, deltaY))
                     ELSE RMax(R(MinImageSize), RSub(l.startHeight, deltaY))
      scaledWidth == RMul(newWidth, Zoom(l.zoom))
      scaledHeight == RMul(newHeight, Zoom(l.zoom))
      maxX == RSub(R(CanvasWidth), scaledWidth)
      maxY == RSub(R(CanvasHeight), scaledHeight)
      newX == RMax(R(0), RMin(maxX, prevPos.x))
      newY == RMax(R(0), RMin(maxY, prevPos.y))
  IN  [size |-> [width |-> newWidth, height |-> newHeight],
       pos |-> [x |-> newX, y |-> newY]]

\* The setEditFormData updater of handleResizeMove for listener l and a
\* pointer at (clientX, clientY): the new [size, pos] from the previous pos.
ResizeUpdate(l, clientX, clientY, prevPos) ==
  LET deltaX == RDiv(R(clientX - l.startX), Zoom(l.zoom))
      deltaY == RDiv(R(clientY - l.startY), Zoom(l.zoom))
      newWidth == IF l.handle = "bottom-right"
                    THEN RMax(R(MinImageSize), RAdd(l.startWidth, deltaX))
                    ELSE RMax(R(MinImageSize), RSub(l.startWidth, deltaX))
      aspectRatio == RDiv(l.startWidth, l.startHeight)
      newHeight == RDiv(newWidth, aspectRatio)
      scaledWidth == RMul(newWidth, Zoom(l.zoom))
      scaledHeight == RMul(newHeight, Zoom(l.zoom))
      maxX == RSub(R(CanvasWidth), scaledWidth)
      maxY == RSub(R(CanvasHeight), scaledHeight)
      newX == RMax(R(0), RMin(maxX, prevPos.x))
      newY == RMax(R(0), RMin(maxY, prevPos.y))
  IN  [size |-> [width |-> newWidth, height |-> newHeight],
       pos |-> [x |-> newX, y |-> newY]]

\* Math.atan2(dy, dx) * (180 / Math.PI) for the directions the pointers of
\* the exploration lie in (multiples of 45 degrees, where it is exact).
Atan2Deg(dy, dx) ==
  IF dy = 0 THEN (IF dx >= 0 THEN 0 ELSE 180)
  ELSE IF dx = 0 THEN (IF dy > 0 THEN 90 ELSE -90)
  ELSE IF dy > 0 THEN (IF dx > 0 THEN 45 ELSE 135)
  ELSE (IF dx > 0 THEN -45 ELSE -135)

\* The setEditFormData updater of handleRotateMove for listener l: the new
\* imageRotation.
RotateUpdate(l, clientX, clientY) ==
  Atan2Deg(clientY - l.centerY, clientX - l.centerX)

\* One pointer move reaches every attached move listener, in the order the
\* listeners were attached; each queues its updater.
RECURSIVE ApplyMoves(_, _, _, _)
ApplyMoves(ls, clientX, clientY, st) ==
  IF ls = <<>> THEN st
  ELSE ApplyMoves(Tail(ls), clientX, clientY,
         IF Head(ls).kind = "resize"
           THEN LET u == ResizeUpdate(Head(ls), clientX, clientY, st.pos)
                IN  [size |-> u.size, pos |-> u.pos, rot |-> st.rot]
           ELSE [st EXCEPT !.rot = RotateUpdate(Head(ls), clientX, clientY)])

\* window mousemove / touchmove: the move listeners attached, if any, run.
handleResizeMove(clientX, clientY) ==
  /\ editOps < MaxEditOps
  /\ LET st == ApplyMoves(listeners, clientX, clientY,
                          [size |-> imageSize, pos |-> imagePosition,
                           rot |-> imageRotation])
     IN  /\ imageSize' = st.size
         /\ imagePosition' = st.pos
         /\ imageRotation' = st.rot
  /\ editOps' = editOps + 1
  /\ UNCHANGED <<editingPoster, name, image, textPosition, zoomLevel,
                 textBox, fontSize, textRotation, listeners>>

\* handleRotateStart: the closure keeps the centre of the image's bounding
\* rectangle, and four window listeners are attached.
handleRotateStart(centerX, centerY) ==
  /\ editingPoster # NULL
  /\ image # NULL
  /\ editOps < MaxEditOps
  /\ Len(listeners) < MaxListeners
  /\ listeners' = Append(listeners,
        [kind |-> "rotate", centerX |-> centerX, centerY |-> centerY])
  /\ editOps' = editOps + 1
  /\ UNCHANGED <<editingPoster, name, image, textPosition, imagePosition,
                 imageSize, zoomLevel, textBox, styleVars>>

handleResizeEnd_lastOnly ==
  /\ listeners # <<>>
  /\ listeners' = SubSeq(listeners, 1, Len(listeners) - 1)
  /\ UNCHANGED <<editingPoster, name, image, textPosition, imagePosition,
                 imageSize, zoomLevel, textBox, editOps>>
  /\ UNCHANGED styleVars

\* window mouseup / touchend: every attached handleResizeEnd and
\* handleRotateEnd removes the four listeners of its own gesture.
handleResizeEnd ==
  /\ listeners # <<>>
  /\ listeners' = <<>>
  /\ UNCHANGED <<editingPoster, name, image, textPosition, imagePosition,
                 imageSize, zoomLevel, textBox, editOps>>
  /\ UNCHANGED styleVars

handleZoom_rescaling(delta) ==
  /\ editingPoster # NULL
  /\ zoomLevel' = IF zoomLevel + delta < ZoomMin THEN ZoomMin
                  ELSE IF zoomLevel + delta > ZoomMax THEN ZoomMax
                  ELSE zoomLevel + delta
  /\ imageSize' = [width |-> RMul(imageSize.width, Rat(zoomLevel', zoomLevel)),
                   height |-> RMul(imageSize.height, Rat(zoomLevel', zoomLevel))]
  /\ UNCHANGED <<editingPoster, name, image, textPosition, imagePosition,
                 textBox, listeners>>
  /\ UNCHANGED styleVars

\* The zoom buttons call handleZoom(-0.1) and handleZoom(0.1).  (The
\* operation budget is charged where the exploration bounds it.)
handleZoom(delta) ==
  /\ editingPoster # NULL
  /\ zoomLevel' = IF zoomLevel + delta < ZoomMin THEN ZoomMin
                  ELSE IF zoomLevel + delta > ZoomMax THEN ZoomMax
                  ELSE zoomLevel + delta
  /\ UNCHANGED <<editingPoster, name, image, textPosition, imagePosition,
                 imageSize, textBox, listeners>>
  /\ UNCHANGED styleVars

\* a % b of JavaScript: the result has the sign of a.
JsRem(a, b) == IF a >= 0 THEN a % b ELSE -((-a) % b)

\* The Font Size buttons call handleFontSizeChange(-2) and (2).
handleFontSizeChange(delta) ==
  /\ editingPoster # NULL
  /\ editOps < MaxEditOps
  /\ fontSize' = IF fontSize + delta < MinFontSize THEN MinFontSize
                 ELSE fontSize + delta
  /\ editOps' = editOps + 1
  /\ UNCHANGED <<editingPoster, name, image, textPosition, imagePosition,
                 imageSize, zoomLevel, textBox, textRotation, imageRotation,
                 listeners>>

\* The Rotation buttons call handleRotationChange(type, -15) and (type, 15).
handleRotationChange(type, delta) ==
  /\ editingPoster # NULL
  /\ type = "image" => image # NULL
  /\ editOps < MaxEditOps
  /\ IF type = "text"
       THEN /\ textRotation' = JsRem(textRotation + delta, 360)
            /\ UNCHANGED imageRotation
       ELSE /\ imageRotation' = JsRem(imageRotation + delta, 360)
            /\ UNCHANGED textRotation
  /\ editOps' = editOps + 1
  /\ UNCHANGED <<editingPoster, name, image, textPosition, imagePosition,
                 imageSize, zoomLevel, textBox, fontSize, listeners>>

\* closeEditModal resets the session state; the operation budget of the
\* exploration is not part of the program and is kept.
ResetSession ==
  /\ editingPoster' = NULL
  /\ name' = ""
  /\ image' = NULL
  /\ imagePosition' = DefaultImagePosition
  /\ textPosition' = DefaultTextPosition
  /\ imageSize' = DefaultImageSize
  /\ zoomLevel' = DefaultZoom
  /\ textBox' = <<0, 0>>
  /\ fontSize' = DefaultFontSize
  /\ textRotation' = 0
  /\ imageRotation' = 0
  /\ UNCHANGED <<listeners, editOps>>

closeEditModal ==
  /\ editingPoster # NULL
  /\ ResetSession

(***************************************************************************)
(* User dashboard: gallery download (handleDownload) and customized        *)
(* download (handleEditSave).  A backend call is one step: the table is    *)
(* read or written and the handler continues with the answer.              *)
(***************************************************************************)
MaxSaves == 1        \* file saves explored

\* handleDownload calls this dashboard can have in progress at once.
Slots == {"c1", "c2"}
\* The slots SpecDl starts calls in (one call of this dashboard at a time,
\* racing the other browser and the customized download).
DlSlots == {"c1"}
\* Posters whose download button is pressed.
DlIds == {1}

MsgCount == "Failed to update download count."
MsgDownload == "Failed to download the poster. Please try again."
MsgCanvas == "Cannot save: Canvas not found"
MsgRender == "Failed to save customized poster"

IdleCall == [pc |-> "idle", id |-> 0, posterData |-> 0, interval |-> "off"]
IdleSave == [pc |-> "idle", poster |-> NULL]
IdleRemote == [pc |-> "idle", id |-> 0, posterData |-> 0]

\* The countdowns object is a function on the poster ids; a key the object
\* does not hold maps to Absent.
Absent == -1
HasEntry(cd, id) == cd[id] # Absent

\* { ...prev, [id]: v }
SetEntry(cd, id, v) == [cd EXCEPT ![id] = v]

\* The deletion forgotten: the entry is zeroed, not removed.
DeleteEntry_zeroed(cd, id) == [cd EXCEPT ![id] = 0]

\* const n = { ...prev }; delete n[id]
DeleteEntry(cd, id) == [cd EXCEPT ![id] = Absent]

\* disabled={!!countdowns[poster.id]}: an absent entry and 0 are falsy.
ButtonEnabled(cd, id) == cd[id] = Absent \/ cd[id] = 0

\* The local patch counting from the local entry, not from the count read.
SetCount_fromLocal(ps, id, n) ==
  [i \in 1..Len(ps) |->
     IF ps[i].id = id
       THEN [ps[i] EXCEPT !.download_count = ps[i].download_count + 1]
       ELSE ps[i]]

\* prev.map(p => p.id === id ? { ...p, download_count: n } : p)
SetCount(ps, id, n) ==
  [i \in 1..Len(ps) |->
     IF ps[i].id = id THEN [ps[i] EXCEPT !.download_count = n] ELSE ps[i]]

BumpCount(ps, id) ==
  [i \in 1..Len(ps) |->
     IF ps[i].id = id
       THEN [ps[i] EXCEPT !.download_count = ps[i].download_count + 1]
       ELSE ps[i]]

\* The call leaves its slot; the slot's interval may still be running.
EndCall(c) ==
  IF c.interval = "off" THEN IdleCall
  ELSE [c EXCEPT !.pc = "idle", !.posterData = 0]

\* handleDownload up to its first await: the cooldown entry is set to 5, the
\* 1 s interval and the 5 s timeout are started.  The gallery button is
\* reachable while no customization modal covers it.
DlStart(s, id) ==
  /\ dl[s] = IdleCall
  /\ editingPoster = NULL
  /\ \E i \in 1..Len(posters) : posters[i].id = id
  /\ ButtonEnabled(countdowns, id)
  /\ countdowns' = SetEntry(countdowns, id, 5)
  /\ dl' = [dl EXCEPT ![s] = [pc |-> "sleep", id |-> id, posterData |-> 0,
                              interval |-> "fresh"]]
  /\ UNCHANGED <<db, posters, errorMessage, remote, save, saves>>

\* One firing of the interval of the call in slot s.
DlTick(s) ==
  /\ dl[s].interval # "off"
  /\ LET id == dl[s].id
         prev == countdowns[id]
         newCount == (IF prev = Absent \/ prev = 0 THEN 5 ELSE prev) - 1
     IN  IF newCount <= 0
           THEN /\ countdowns' = SetEntry(countdowns, id, 0)
                /\ dl' = [dl EXCEPT ![s] =
                            IF dl[s].pc = "idle" THEN IdleCall
                            ELSE [dl[s] EXCEPT !.interval = "off"]]
           ELSE /\ countdowns' = SetEntry(countdowns, id, newCount)
                /\ dl' = [dl EXCEPT ![s].interval = "on"]
  /\ UNCHANGED <<db, posters, errorMessage, remote, save, saves>>

\* The 5 s timeout has fired (the interval, started before it with a
\* shorter delay, has fired at least once) and the count select failed.
DlFetchFail(s) ==
  /\ dl[s].pc = "sleep"
  /\ dl[s].interval # "fresh"
  /\ errorMessage' = MsgCount
  /\ countdowns' = DeleteEntry(countdowns, dl[s].id)
  /\ dl' = [dl EXCEPT ![s] = EndCall(dl[s])]
  /\ UNCHANGED <<db, posters, remote, save, saves>>

\* The count select answered with the persisted download_count.
DlFetchOk(s) ==
  /\ dl[s].pc = "sleep"
  /\ dl[s].interval # "fresh"
  /\ db[dl[s].id] < MaxCount
  /\ dl' = [dl EXCEPT ![s].pc = "update", ![s].posterData = db[dl[s].id]]
  /\ UNCHANGED <<db, posters, countdowns, errorMessage, remote, save, saves>>

DlUpdateFail(s) ==
  /\ dl[s].pc = "update"
  /\ errorMessage' = MsgCount
  /\ countdowns' = DeleteEntry(countdowns, dl[s].id)
  /\ dl' = [dl EXCEPT ![s] = EndCall(dl[s])]
  /\ UNCHANGED <<db, posters, remote, save, saves>>

\* update({ download_count: newCount }) succeeded; the local catalog entry
\* is patched to newCount.
DlUpdateOk(s) ==
  /\ dl[s].pc = "update"
  /\ LET newCount == dl[s].posterData + 1
     IN  /\ db' = [db EXCEPT ![dl[s].id] = newCount]
         /\ posters' = SetCount(posters, dl[s].id, newCount)
  /\ dl' = [dl EXCEPT ![s].pc = "asset", ![s].posterData = 0]
  /\ UNCHANGED <<countdowns, errorMessage, remote, save, saves>>

\* fetch(url) failed or answered not-ok: caught, reported.
DlAssetFail(s) ==
  /\ dl[s].pc = "asset"
  /\ errorMessage' = MsgDownload
  /\ countdowns' = DeleteEntry(countdowns, dl[s].id)
  /\ dl' = [dl EXCEPT ![s] = EndCall(dl[s])]
  /\ UNCHANGED <<db, posters, remote, save, saves>>

\* The asset bytes arrived: link.click() saves the file.
DlAssetOk(s) ==
  /\ dl[s].pc = "asset"
  /\ saves < MaxSaves
  /\ saves' = saves + 1
  /\ countdowns' = DeleteEntry(countdowns, dl[s].id)
  /\ dl' = [dl EXCEPT ![s] = EndCall(dl[s])]
  /\ UNCHANGED <<db, posters, errorMessage, remote, save>>

\* The error banner's dismiss button.
DismissError ==
  /\ errorMessage # NoMessage
  /\ errorMessage' = NoMessage
  /\ UNCHANGED <<db, posters, countdowns, dl, remote, save, saves>>

\* handleDownload running in another browser, as far as the backend sees
\* it: the count select, then the update with the count read + 1.
RemoteFetch(id) ==
  /\ remote.pc = "idle"
  /\ db[id] < MaxCount
  /\ remote' = [pc |-> "update", id |-> id, posterData |-> db[id]]
  /\ UNCHANGED <<db, posters, countdowns, errorMessage, dl, save, saves>>

RemoteUpdate ==
  /\ remote.pc = "update"
  /\ db' = [db EXCEPT ![remote.id] = remote.posterData + 1]
  /\ remote' = IdleRemote
  /\ UNCHANGED <<posters, countdowns, errorMessage, dl, save, saves>>

handleEditSave_noCanvasCheck(canvas) ==
  /\ editingPoster # NULL
  /\ save.pc = "idle"
  /\ save' = [pc |-> "render", poster |-> editingPoster]
  /\ UNCHANGED errorMessage
  /\ UNCHANGED <<db, posters, countdowns, dl, remote, saves>>
  /\ UNCHANGED editVars

\* handleEditSave up to its first await.  Without a canvas it reports and
\* returns; otherwise html2canvas is started.  The closure keeps the
\* editingPoster of the render the button was pressed in.
handleEditSave(canvas) ==
  /\ editingPoster # NULL
  /\ save.pc = "idle"
  /\ IF canvas
       THEN /\ save' = [pc |-> "render", poster |-> editingPoster]
            /\ UNCHANGED errorMessage
       ELSE /\ errorMessage' = MsgCanvas
            /\ UNCHANGED save
  /\ UNCHANGED <<db, posters, countdowns, dl, remote, saves>>
  /\ UNCHANGED editVars

\* html2canvas rejected: caught, reported; the session stays open.
SaveRenderFail ==
  /\ save.pc = "render"
  /\ errorMessage' = MsgRender
  /\ save' = IdleSave
  /\ UNCHANGED <<db, posters, countdowns, dl, remote, saves>>
  /\ UNCHANGED editVars

\* html2canvas resolved: link.click() saves the file, the count update is
\* sent.
SaveRenderOk ==
  /\ save.pc = "render"
  /\ saves < MaxSaves
  /\ saves' = saves + 1
  /\ save' = [save EXCEPT !.pc = "update"]
  /\ UNCHANGED <<db, posters, countdowns, errorMessage, dl, remote>>
  /\ UNCHANGED editVars

\* The count update failed: reported; the session is reset all the same.
SaveUpdateFail ==
  /\ save.pc = "update"
  /\ errorMessage' = MsgCount
  /\ save' = IdleSave
  /\ ResetSession
  /\ UNCHANGED <<db, posters, countdowns, dl, remote, saves>>

\* update({ download_count: editingPoster.download_count + 1 }) succeeded:
\* the local entry's own count is raised by one, the session is reset.
SaveUpdateOk ==
  /\ save.pc = "update"
  /\ save.poster.download_count < MaxCount
  /\ \A i \in 1..Len(posters) :
        posters[i].id = save.poster.id => posters[i].download_count < MaxCount
  /\ db' = [db EXCEPT ![save.poster.id] = save.poster.download_count + 1]
  /\ posters' = BumpCount(posters, save.poster.id)
  /\ save' = IdleSave
  /\ ResetSession
  /\ UNCHANGED <<countdowns, errorMessage, dl, remote, saves>>

(***************************************************************************)
(* Initial state: the dashboard is mounted and its catalog fetched, no     *)
(* customization session is open and nothing is in progress.               *)
(***************************************************************************)
(***************************************************************************)
(* User dashboard: the filter/sort effect over the catalog.                *)
(***************************************************************************)
UpperCase == <<"A", "B", "C", "D", "E", "F", "G", "H", "I", "J", "K", "L", "M",
               "N", "O", "P", "Q", "R", "S", "T", "U", "V", "W", "X", "Y", "Z">>
LowerCase == <<"a", "b", "c", "d", "e", "f", "g", "h", "i", "j", "k", "l", "m",
               "n", "o", "p", "q", "r", "s", "t", "u", "v", "w", "x", "y", "z">>

\* The lower-case form of each letter.
LowerOf ==
  [ch \in {UpperCase[k] : k \in 1..26} \cup {LowerCase[k] : k \in 1..26} |->
     IF \E k \in 1..26 : UpperCase[k] = ch
       THEN LowerCase[CHOOSE k \in 1..26 : UpperCase[k] = ch]
       ELSE ch]

\* String.prototype.toLowerCase
toLowerCase(str) == [i \in 1..Len(str) |-> LowerOf[str[i]]]

\* String.prototype.includes
includes(str, sub) ==
  \E i \in 0..(Len(str) - Len(sub)) : SubSeq(str, i + 1, i + Len(sub)) = sub

\* Array.prototype.filter
RECURSIVE filter(_, _, _, _)
filter(arr, what, q, c) ==
  IF arr = <<>> THEN <<>>
  ELSE LET p == Head(arr)
           keep == IF what = "query"
                     THEN LET lq == toLowerCase(q)
                          IN  \/ includes(toLowerCase(p.title), lq)
                              \/ includes(toLowerCase(p.category), lq)
                     ELSE p.category = c
       IN  (IF keep THEN <<p>> ELSE <<>>) \o filter(Tail(arr), what, q, c)

\* A download_count that is null in the row.
NoCount == -1

\* poster.download_count || 0
CountOrZero(p) == IF p.download_count = NoCount THEN 0 ELSE p.download_count

\* The comparators handed to sort: negative when a goes before b.
Compare(mode, a, b) ==
  IF mode = "popular" THEN CountOrZero(b) - CountOrZero(a)
  ELSE b.created_at - a.created_at

InsertSorted_beforeEqual(sorted, x, mode) ==
  LET n == Cardinality({i \in 1..Len(sorted) : Compare(mode, sorted[i], x) < 0})
  IN  SubSeq(sorted, 1, n) \o <<x>> \o SubSeq(sorted, n + 1, Len(sorted))

\* x goes behind every element that does not compare greater than it.
InsertSorted(sorted, x, mode) ==
  LET n == Cardinality({i \in 1..Len(sorted) : Compare(mode, sorted[i], x) <= 0})
  IN  SubSeq(sorted, 1, n) \o <<x>> \o SubSeq(sorted, n + 1, Len(sorted))

\* Array.prototype.sort with a consistent comparator: a stable sort
\* (ECMAScript 2019), here by insertion from the left.
RECURSIVE sort(_, _, _)
sort(arr, mode, done) ==
  IF arr = <<>> THEN done
  ELSE sort(Tail(arr), mode, InsertSorted(done, Head(arr), mode))

FilterEffect_inPlace(ps, q, c, mode) ==
  LET result1 == IF q # <<>> THEN filter(ps, "query", q, c) ELSE ps
      result2 == IF c # All THEN filter(result1, "category", q, c) ELSE result1
      result3 == sort(result2, mode, <<>>)
  IN  [catalog |-> IF q = <<>> /\ c = All THEN result3 ELSE ps,
       displayed |-> result3]

\* The effect on [searchQuery, selectedCategory, sortBy, posters]: it works
\* on a copy of posters ([...posters]), so the sort in place leaves the
\* catalog as it is.
FilterEffect(ps, q, c, mode) ==
  LET result0 == ps
      result1 == IF q # <<>> THEN filter(result0, "query", q, c) ELSE result0
      result2 == IF c # All THEN filter(result1, "category", q, c) ELSE result1
      result3 == sort(result2, mode, <<>>)
  IN  [catalog |-> ps, displayed |-> result3]

\* The effect runs after a handler that set posters.
RunFilterEffect ==
  /\ filteredPosters' =
       FilterEffect(posters', searchQuery, selectedCategory, sortBy).displayed
  /\ UNCHANGED <<searchQuery, selectedCategory, sortBy>>

\* The catalogs the dashboard can hold after its fetch: posters of the
\* backend newest first (order by created_at desc; two share a timestamp
\* and come in either order), any of them missing.
Pool ==
  << [id |-> 1, is_editable |-> TRUE, download_count |-> 1,
      title |-> <<"A", "b", "c">>, category |-> Festival, created_at |-> 3],
     [id |-> 2, is_editable |-> FALSE, download_count |-> NoCount,
      title |-> <<"x", "m", "a", "s">>, category |-> Festival, created_at |-> 2],
     [id |-> 3, is_editable |-> TRUE, download_count |-> 1,
      title |-> <<"P", "a", "r", "t", "y">>, category |-> Birthday,
      created_at |-> 2],
     [id |-> 4, is_editable |-> FALSE, download_count |-> 0,
      title |-> <<"b", "b">>, category |-> Marriage, created_at |-> 1] >>

RECURSIVE Pick(_, _)
Pick(order, ids) ==
  IF order = <<>> THEN <<>>
  ELSE (IF Head(order) \in ids THEN <<Pool[Head(order)]>> ELSE <<>>)
       \o Pick(Tail(order), ids)

Catalogs ==
  {Pick(order, ids) : order \in {<<1, 2, 3, 4>>, <<1, 3, 2, 4>>},
                      ids \in SUBSET {1, 2, 3, 4}}

Queries == { <<>>, <<"B">>, <<"A", "R">>, <<"m", "a">>, <<"z">> }
Categories == {All, Festival, Birthday, Marriage}
SortModes == {"latest", "popular"}
\* Counts a download patches into the local catalog.
PatchedCounts == {0, 2}

\* The effect committing its result; posters is written only because the
\* sort works in place on whatever array `result` is.
ApplyFilterEffect(ps, q, c, mode) ==
  LET eff == FilterEffect(ps, q, c, mode)
  IN  /\ posters' = eff.catalog
      /\ filteredPosters' = eff.displayed

\* onChange of the search box.
setSearchQuery(q) ==
  /\ q # searchQuery
  /\ searchQuery' = q
  /\ ApplyFilterEffect(posters, q, selectedCategory, sortBy)
  /\ UNCHANGED <<selectedCategory, sortBy>>

\* onChange of the category select / CategoryScroll button.
setSelectedCategory(c) ==
  /\ c # selectedCategory
  /\ selectedCategory' = c
  /\ ApplyFilterEffect(posters, searchQuery, c, sortBy)
  /\ UNCHANGED <<searchQuery, sortBy>>

\* onChange of the sort select.
setSortBy(mode) ==
  /\ mode # sortBy
  /\ sortBy' = mode
  /\ ApplyFilterEffect(posters, searchQuery, selectedCategory, mode)
  /\ UNCHANGED <<searchQuery, selectedCategory>>

\* A download has patched the count of poster id in the local catalog.
PatchCount(id, n) ==
  /\ \E i \in 1..Len(posters) : posters[i].id = id /\ posters[i].download_count # n
  /\ ApplyFilterEffect(SetCount(posters, id, n), searchQuery,
                       selectedCategory, sortBy)
  /\ UNCHANGED <<searchQuery, selectedCategory, sortBy>>

InitFilter ==
  /\ searchQuery = <<>>
  /\ selectedCategory = All
  /\ sortBy = "latest"
  /\ filteredPosters = FilterEffect(posters, <<>>, All, "latest").displayed

\* The dashboard after its fetch has been applied, for any catalog.
InitGallery ==
  /\ db = [id \in PosterIds |-> 0]
  /\ posters \in Catalogs
  /\ countdowns = [id \in PosterIds |-> Absent]
  /\ errorMessage = NoMessage
  /\ dl = [s \in Slots |-> IdleCall]
  /\ remote = IdleRemote
  /\ save = IdleSave
  /\ saves = 0

NextFilter ==
  \/ /\ \E q \in Queries : setSearchQuery(q)
     /\ UNCHANGED <<db, countdowns, errorMessage, dl, remote, save, saves>>
     /\ UNCHANGED <<editVars, adminVars, uploadVars>>
  \/ /\ \E c \in Categories : setSelectedCategory(c)
     /\ UNCHANGED <<db, countdowns, errorMessage, dl, remote, save, saves>>
     /\ UNCHANGED <<editVars, adminVars, uploadVars>>
  \/ /\ \E mode \in SortModes : setSortBy(mode)
     /\ UNCHANGED <<db, countdowns, errorMessage, dl, remote, save, saves>>
     /\ UNCHANGED <<editVars, adminVars, uploadVars>>
  \/ /\ \E id \in 1..4, n \in PatchedCounts : PatchCount(id, n)
     /\ UNCHANGED <<db, countdowns, errorMessage, dl, remote, save, saves>>
     /\ UNCHANGED <<editVars, adminVars, uploadVars>>

InitEdit ==
  /\ editingPoster = NULL
  /\ name = ""
  /\ image = NULL
  /\ textPosition = DefaultTextPosition
  /\ imagePosition = DefaultImagePosition
  /\ imageSize = DefaultImageSize
  /\ zoomLevel = DefaultZoom
  /\ textBox = <<0, 0>>
  /\ fontSize = DefaultFontSize
  /\ textRotation = 0
  /\ imageRotation = 0
  /\ listeners = <<>>
  /\ editOps = 0

InitDl ==
  /\ db = [id \in PosterIds |-> 0]
  /\ posters = InitialCatalog
  /\ countdowns = [id \in PosterIds |-> Absent]
  /\ errorMessage = NoMessage
  /\ dl = [s \in Slots |-> IdleCall]
  /\ remote = IdleRemote
  /\ save = IdleSave
  /\ saves = 0

(***************************************************************************)
(* The customization session alone.                                        *)
(***************************************************************************)
Names == {"", "Hi"}
Handles == {"bottom-right", "top-left"}
\* Centres of the image's bounding rectangle (client coordinates).
RectCenters == {<<30, 30>>}

NextEdit ==
  \/ /\ \E i \in 1..Len(posters) : OpenEdit(i)
     /\ UNCHANGED <<dlVars, adminVars, uploadVars, filterVars>>
  \/ /\ \E v \in Names, box \in TextBoxes : SetName(v, box)
     /\ UNCHANGED <<dlVars, adminVars, uploadVars, filterVars>>
  \/ /\ \E file \in ImageFiles : SetImage(file)
     /\ UNCHANGED <<db, posters, countdowns, dl, remote, save, saves>>
     /\ UNCHANGED <<adminVars, uploadVars>>
     /\ RunFilterEffect
  \/ /\ \E dx \in DragDeltas, dy \in DragDeltas : handleTextDrag(dx, dy)
     /\ UNCHANGED <<dlVars, adminVars, uploadVars, filterVars>>
  \/ /\ \E dx \in DragDeltas, dy \in DragDeltas : handleImageDrag(dx, dy)
     /\ UNCHANGED <<dlVars, adminVars, uploadVars, filterVars>>
  \/ /\ \E d \in {-10, 10} : handleImageSizeChange(d, d)
     /\ UNCHANGED <<dlVars, adminVars, uploadVars, filterVars>>
  \/ /\ \E h \in Handles, sx \in Pointer, sy \in Pointer :
          handleResizeStart(h, sx, sy)
     /\ UNCHANGED <<dlVars, adminVars, uploadVars, filterVars>>
  \/ /\ \E cx \in Pointer, cy \in Pointer : handleResizeMove(cx, cy)
     /\ UNCHANGED <<dlVars, adminVars, uploadVars, filterVars>>
  \/ /\ \E c \in RectCenters : handleRotateStart(c[1], c[2])
     /\ UNCHANGED <<dlVars, adminVars, uploadVars, filterVars>>
  \/ /\ handleResizeEnd
     /\ UNCHANGED <<dlVars, adminVars, uploadVars, filterVars>>
  \/ /\ \E d \in {-2, 2} : handleFontSizeChange(d)
     /\ UNCHANGED <<dlVars, adminVars, uploadVars, filterVars>>
  \/ /\ \E ty \in {"text", "image"}, d \in {-15, 15} :
          handleRotationChange(ty, d)
     /\ UNCHANGED <<dlVars, adminVars, uploadVars, filterVars>>
  \/ /\ \E d \in {-1, 1} : handleZoom(d)
     /\ editOps < MaxEditOps
     /\ editOps' = editOps + 1
     /\ UNCHANGED <<dlVars, adminVars, uploadVars, filterVars>>
  \/ /\ closeEditModal
     /\ UNCHANGED <<dlVars, adminVars, uploadVars, filterVars>>

(***************************************************************************)
(* The customization session under any number of zoom clicks, ended by     *)
(* cancel or by the customized download: the zoom buttons are not charged  *)
(* to the operation budget; the text layer and the operations whose        *)
(* result depends on the zoom level are left to SpecEdit.                  *)
(***************************************************************************)
NextZoom ==
  \/ /\ \E i \in 1..Len(posters) : OpenEdit(i)
     /\ UNCHANGED <<dlVars, adminVars, uploadVars, filterVars>>
  \/ /\ \E file \in ImageFiles : SetImage(file)
     /\ UNCHANGED <<db, posters, countdowns, dl, remote, save, saves>>
     /\ UNCHANGED <<adminVars, uploadVars>>
     /\ RunFilterEffect
  \/ /\ \E d \in {-10, 10} : handleImageSizeChange(d, d)
     /\ UNCHANGED <<dlVars, adminVars, uploadVars, filterVars>>
  \/ /\ \E d \in {-2, 2} : handleFontSizeChange(d)
     /\ UNCHANGED <<dlVars, adminVars, uploadVars, filterVars>>
  \/ /\ \E ty \in {"text", "image"} : handleRotationChange(ty, 15)
     /\ UNCHANGED <<dlVars, adminVars, uploadVars, filterVars>>
  \/ /\ \E d \in {-1, 1} : handleZoom(d)
     /\ UNCHANGED editOps
     /\ UNCHANGED <<dlVars, adminVars, uploadVars, filterVars>>
  \/ /\ closeEditModal
     /\ UNCHANGED <<dlVars, adminVars, uploadVars, filterVars>>
  \/ /\ \E canvas \in BOOLEAN : handleEditSave(canvas)
     /\ UNCHANGED <<adminVars, uploadVars>>
     /\ RunFilterEffect
  \/ /\ SaveRenderFail
     /\ UNCHANGED <<adminVars, uploadVars>>
     /\ RunFilterEffect
  \/ /\ SaveRenderOk
     /\ UNCHANGED <<adminVars, uploadVars>>
     /\ RunFilterEffect
  \/ /\ SaveUpdateFail
     /\ UNCHANGED <<adminVars, uploadVars>>
     /\ RunFilterEffect
  \/ /\ SaveUpdateOk
     /\ UNCHANGED <<adminVars, uploadVars>>
     /\ RunFilterEffect

(***************************************************************************)
(* Gallery downloads and customized downloads against the shared counter.  *)
(***************************************************************************)
NextDl ==
  \/ /\ \E i \in 1..Len(posters) : OpenEdit(i)
     /\ UNCHANGED <<dlVars, adminVars, uploadVars, filterVars>>
  \/ /\ closeEditModal
     /\ UNCHANGED <<dlVars, adminVars, uploadVars, filterVars>>
  \/ /\ \E s \in DlSlots, id \in DlIds : DlStart(s, id)
     /\ UNCHANGED <<editVars, adminVars, uploadVars>>
     /\ RunFilterEffect
  \/ /\ \E s \in Slots : DlTick(s)
     /\ UNCHANGED <<editVars, adminVars, uploadVars>>
     /\ RunFilterEffect
  \/ /\ \E s \in Slots : DlFetchFail(s)
     /\ UNCHANGED <<editVars, adminVars, uploadVars>>
     /\ RunFilterEffect
  \/ /\ \E s \in Slots : DlFetchOk(s)
     /\ UNCHANGED <<editVars, adminVars, uploadVars>>
     /\ RunFilterEffect
  \/ /\ \E s \in Slots : DlUpdateFail(s)
     /\ UNCHANGED <<editVars, adminVars, uploadVars>>
     /\ RunFilterEffect
  \/ /\ \E s \in Slots : DlUpdateOk(s)
     /\ UNCHANGED <<editVars, adminVars, uploadVars>>
     /\ RunFilterEffect
  \/ /\ \E s \in Slots : DlAssetFail(s)
     /\ UNCHANGED <<editVars, adminVars, uploadVars>>
     /\ RunFilterEffect
  \/ /\ \E s \in Slots : DlAssetOk(s)
     /\ UNCHANGED <<editVars, adminVars, uploadVars>>
     /\ RunFilterEffect
  \/ /\ DismissError
     /\ UNCHANGED <<editVars, adminVars, uploadVars>>
     /\ RunFilterEffect
  \/ /\ \E id \in DlIds : RemoteFetch(id)
     /\ UNCHANGED <<editVars, adminVars, uploadVars>>
     /\ RunFilterEffect
  \/ /\ RemoteUpdate
     /\ UNCHANGED <<editVars, adminVars, uploadVars>>
     /\ RunFilterEffect
  \/ /\ \E canvas \in BOOLEAN : handleEditSave(canvas)
     /\ UNCHANGED <<adminVars, uploadVars>>
     /\ RunFilterEffect
  \/ /\ SaveRenderFail
     /\ UNCHANGED <<adminVars, uploadVars>>
     /\ RunFilterEffect
  \/ /\ SaveRenderOk
     /\ UNCHANGED <<adminVars, uploadVars>>
     /\ RunFilterEffect
  \/ /\ SaveUpdateFail
     /\ UNCHANGED <<adminVars, uploadVars>>
     /\ RunFilterEffect
  \/ /\ SaveUpdateOk
     /\ UNCHANGED <<adminVars, uploadVars>>
     /\ RunFilterEffect

(***************************************************************************)
(* Admin catalog: AdminPosters' mount effect (fetchPosters + realtime      *)
(* subscription) against a posters table that changes while it runs.       *)
(***************************************************************************)
MaxId == 2           \* ids the table assigns: 1..MaxId
MaxEvents == 2       \* realtime events in flight at once

Titles == {"t0", "t1"}

\* The rows present when the admin page is opened.
InitialTable == << [id |-> 1, title |-> "t0"] >>

\* The table answers selects newest first (order by created_at desc).
InsertRow(t, row) == <<row>> \o t

\* update(...).eq('id', id)
UpdateRow(t, row) ==
  [i \in 1..Len(t) |-> IF t[i].id = row.id THEN row ELSE t[i]]

\* delete().eq('id', id)
DeleteRow(t, id) == SelectSeq(t, LAMBDA r : r.id # id)

\* A commit is published to the channel when the channel is joined.
Publish(ev, e) == IF subscribed THEN Append(ev, e) ELSE ev

\* The three branches of the postgres_changes handler.
OnInsert_appended(prev, new) == Append(prev, new)

\* setPosters((prev) => [payload.new, ...prev])
OnInsert(prev, new) == <<new>> \o prev

OnDelete_first(prev, old) ==
  IF \E i \in 1..Len(prev) : prev[i].id = old.id THEN Tail(prev) ELSE prev

\* setPosters((prev) => prev.filter((p) => p.id !== payload.old.id))
OnDelete(prev, old) == SelectSeq(prev, LAMBDA p : p.id # old.id)

\* setPosters((prev) => prev.map((p) => p.id === payload.new.id ? new : p))
OnUpdate(prev, new) ==
  [i \in 1..Len(prev) |-> IF prev[i].id = new.id THEN new ELSE prev[i]]

InitAdmin ==
  /\ table = InitialTable
  /\ adminPosters = <<>>
  /\ adminLoading = TRUE
  /\ adminError = NoMessage
  /\ fetchPc = "sent"
  /\ fetchData = NULL
  /\ subscribed = FALSE
  /\ mounted = TRUE
  /\ events = <<>>
  /\ lastEvent = NULL
  /\ nextId = 2

\* A row is inserted (POST /api/upload by any admin).
BackendInsert(title) ==
  /\ nextId <= MaxId
  /\ Len(events) < MaxEvents
  /\ LET row == [id |-> nextId, title |-> title]
     IN  /\ table' = InsertRow(table, row)
         /\ events' = Publish(events, [type |-> "INSERT", row |-> row])
  /\ nextId' = nextId + 1
  /\ UNCHANGED <<adminPosters, adminLoading, adminError, fetchPc, fetchData,
                 subscribed, lastEvent>>
  /\ UNCHANGED mounted

\* A row is updated (handleUpdate / PUT /api/update by any admin).
BackendUpdate(i, title) ==
  /\ i \in 1..Len(table)
  /\ Len(events) < MaxEvents
  /\ title # table[i].title
  /\ LET row == [table[i] EXCEPT !.title = title]
     IN  /\ table' = UpdateRow(table, row)
         /\ events' = Publish(events, [type |-> "UPDATE", row |-> row])
  /\ UNCHANGED <<adminPosters, adminLoading, adminError, fetchPc, fetchData,
                 subscribed, lastEvent, nextId>>
  /\ UNCHANGED mounted

\* A row is deleted (handleDelete / DELETE /api/delete by any admin).
BackendDelete(i) ==
  /\ i \in 1..Len(table)
  /\ Len(events) < MaxEvents
  /\ table' = DeleteRow(table, table[i].id)
  /\ events' = Publish(events, [type |-> "DELETE", row |-> table[i]])
  /\ UNCHANGED <<adminPosters, adminLoading, adminError, fetchPc, fetchData,
                 subscribed, lastEvent, nextId>>
  /\ UNCHANGED mounted

\* .subscribe(): the channel is joined; commits from now on are published.
SubscribeJoined ==
  /\ mounted
  /\ ~subscribed
  /\ subscribed' = TRUE
  /\ UNCHANGED <<table, adminPosters, adminLoading, adminError, fetchPc,
                 fetchData, events, lastEvent, nextId>>
  /\ UNCHANGED mounted

\* The backend runs fetchPosters' select and answers with the rows it holds
\* now, or with an error.
FetchAnswered(ok) ==
  /\ fetchPc = "sent"
  /\ fetchPc' = "answered"
  /\ fetchData' = IF ok THEN [error |-> FALSE, data |-> table]
                  ELSE [error |-> TRUE, data |-> <<>>]
  /\ UNCHANGED <<table, adminPosters, adminLoading, adminError, subscribed,
                 events, lastEvent, nextId>>
  /\ UNCHANGED mounted

\* fetchPosters continues with the answer: setError or setPosters(data),
\* then setLoading(false).  State updates of a view that is no longer
\* mounted are dropped by React.
FetchApplied ==
  /\ fetchPc = "answered"
  /\ fetchPc' = "done"
  /\ IF ~mounted
       THEN UNCHANGED <<adminPosters, adminError, adminLoading>>
       ELSE /\ IF fetchData.error
                 THEN /\ adminError' = "Failed to fetch posters"
                      /\ UNCHANGED adminPosters
                 ELSE /\ adminPosters' = fetchData.data
                      /\ UNCHANGED adminError
            /\ adminLoading' = FALSE
  /\ fetchData' = NULL
  /\ UNCHANGED <<table, subscribed, mounted, events, lastEvent, nextId>>

Unmount_keepsChannel ==
  /\ mounted
  /\ mounted' = FALSE
  /\ UNCHANGED <<table, adminPosters, adminLoading, adminError, fetchPc,
                 fetchData, subscribed, events, lastEvent, nextId>>

\* The effect's cleanup, run when the view is torn down:
\* subscription.unsubscribe().  The channel is left with what it still
\* carries; its handler is not called again.
Unmount ==
  /\ mounted
  /\ mounted' = FALSE
  /\ subscribed' = FALSE
  /\ events' = <<>>
  /\ UNCHANGED <<table, adminPosters, adminLoading, adminError, fetchPc,
                 fetchData, lastEvent, nextId>>

\* The channel delivers its oldest event to the postgres_changes handler.
HandleEvent ==
  /\ events # <<>>
  /\ LET e == Head(events)
     IN  /\ adminPosters' =
              IF e.type = "INSERT" THEN OnInsert(adminPosters, e.row)
              ELSE IF e.type = "DELETE" THEN OnDelete(adminPosters, e.row)
              ELSE IF e.type = "UPDATE" THEN OnUpdate(adminPosters, e.row)
              ELSE adminPosters
         /\ lastEvent' = e
  /\ events' = Tail(events)
  /\ UNCHANGED <<table, adminLoading, adminError, fetchPc, fetchData,
                 subscribed, nextId>>
  /\ UNCHANGED mounted

NextAdmin ==
  \/ /\ \E t \in Titles : BackendInsert(t)
     /\ UNCHANGED <<editVars, dlVars, uploadVars, filterVars>>
  \/ /\ \E i \in 1..Len(table), t \in Titles : BackendUpdate(i, t)
     /\ UNCHANGED <<editVars, dlVars, uploadVars, filterVars>>
  \/ /\ \E i \in 1..Len(table) : BackendDelete(i)
     /\ UNCHANGED <<editVars, dlVars, uploadVars, filterVars>>
  \/ /\ SubscribeJoined
     /\ UNCHANGED <<editVars, dlVars, uploadVars, filterVars>>
  \/ /\ \E ok \in BOOLEAN : FetchAnswered(ok)
     /\ UNCHANGED <<editVars, dlVars, uploadVars, filterVars>>
  \/ /\ FetchApplied
     /\ UNCHANGED <<editVars, dlVars, uploadVars, filterVars>>
  \/ /\ HandleEvent
     /\ UNCHANGED <<editVars, dlVars, uploadVars, filterVars>>
  \/ /\ Unmount
     /\ UNCHANGED <<editVars, dlVars, uploadVars, filterVars>>

(***************************************************************************)
(* Upload pipeline: the admin form's handleSave and POST /api/upload,      *)
(* which also serves requests that do not come from the form.              *)
(***************************************************************************)
MaxSubmits == 1      \* form submissions and direct requests explored

\* const MAX_FILE_SIZE = 50 * 1024 * 1024 (admin form)
MAX_FILE_SIZE == 50 * 1024 * 1024
\* const MAX_FILE_SIZE = 50 * 1024 * 1024 (POST /api/upload)
POST_MAX_FILE_SIZE == 50 * 1024 * 1024

Sizes == {MAX_FILE_SIZE, MAX_FILE_SIZE + 1}
\* Assets by file extension (lower-cased) and size; thumbnails by size.
AssetFiles == {[ext |-> e, size |-> z] : e \in {"psd", "png"}, z \in Sizes}
ThumbFiles == {[ext |-> "png", size |-> z] : z \in Sizes}

\* The form as handleSave resets it.
EmptyForm ==
  [title |-> "", file |-> NULL, thumbnail |-> NULL, isEditable |-> FALSE,
   category |-> "Festival"]

\* The multipart bodies a request can carry: every combination of file,
\* thumbnail and flag under a title, and one body each without title and
\* without category.
TitledBodies ==
  [title : {"T"}, file : AssetFiles \cup {NULL},
   thumbnail : ThumbFiles \cup {NULL}, isEditable : BOOLEAN,
   category : {"Festival"}]
Untitled ==
  [title |-> "", file |-> [ext |-> "png", size |-> MAX_FILE_SIZE],
   thumbnail |-> NULL, isEditable |-> FALSE, category |-> "Festival"]
RequestBodies ==
  TitledBodies \cup {Untitled, [Untitled EXCEPT !.title = "T", !.category = ""]}

\* What the form can hold when it is submitted (category is a select and
\* always set).
FormInputs == TitledBodies \cup {Untitled}

MsgRequired == "Title and file are required."
MsgThumbnail == "Thumbnail image (PNG/JPEG) is required for editable PSDs."
MsgSize == "File size exceeds maximum limit of 50MB"
MsgMissing == "Missing file, title, or category"
MsgUpload == "Upload failed: "
MsgThumbUpload == "Thumbnail upload failed: "
MsgInsert == "Database insert failed: "
MsgNetwork == "Failed to fetch"

\* '' as a URL.
EmptyUrl == [empty |-> TRUE]

\* !formData.title || !formData.file
FormIncomplete(f) == f.title = "" \/ f.file = NULL

\* formData.isEditable && extension === 'psd' && !formData.thumbnail
FormNeedsThumbnail(f) ==
  f.isEditable /\ f.file.ext = "psd" /\ f.thumbnail = NULL

FormTooBig_atLimit(f) ==
  \/ f.file.size >= MAX_FILE_SIZE
  \/ (f.thumbnail # NULL /\ f.thumbnail.size >= MAX_FILE_SIZE)

\* file.size > MAX_FILE_SIZE || (thumbnail && thumbnail.size > MAX_FILE_SIZE)
FormTooBig(f) ==
  \/ f.file.size > MAX_FILE_SIZE
  \/ (f.thumbnail # NULL /\ f.thumbnail.size > MAX_FILE_SIZE)

FormError_sizeFirst(f) ==
  IF FormIncomplete(f) THEN MsgRequired
  ELSE IF FormTooBig(f) THEN MsgSize
  ELSE IF FormNeedsThumbnail(f) THEN MsgThumbnail
  ELSE NoMessage

\* The first failing check of handleSave, or NoMessage.
FormError(f) ==
  IF FormIncomplete(f) THEN MsgRequired
  ELSE IF FormNeedsThumbnail(f) THEN MsgThumbnail
  ELSE IF FormTooBig(f) THEN MsgSize
  ELSE NoMessage

\* !file || !title || !category
PostMissing(r) == r.file = NULL \/ r.title = "" \/ r.category = ""

\* file.size > MAX_FILE_SIZE || (thumbnail && thumbnail.size > MAX_FILE_SIZE)
PostTooBig(r) ==
  \/ r.file.size > POST_MAX_FILE_SIZE
  \/ (r.thumbnail # NULL /\ r.thumbnail.size > POST_MAX_FILE_SIZE)

\* The first failing check of POST, or NoMessage.
PostError(r) ==
  IF PostMissing(r) THEN MsgMissing
  ELSE IF PostTooBig(r) THEN MsgSize
  ELSE NoMessage

\* The object the main file is stored as: psd/<name> or thumbnails/<name>;
\* the name is made from the time and the title (one per request here).
MainObject(r) ==
  [dir |-> IF r.file.ext = "psd" THEN "psd" ELSE "thumbnails",
   of |-> "asset", sub |-> r.sub]

\* thumbnails/<name>-thumb.png
ThumbObject(r) == [dir |-> "thumbnails", of |-> "thumb", sub |-> r.sub]

\* getPublicUrl(path): the URL names the object.
PublicUrl(obj) == obj

InsertedRow_byThumbnail(r, publicUrl, thumbnailUrl) ==
  [title |-> r.title,
   download_url |-> IF r.thumbnail # NULL THEN thumbnailUrl ELSE publicUrl,
   psd_url |-> IF r.thumbnail # NULL THEN publicUrl ELSE NULL,
   is_editable |-> r.isEditable]

\* The record POST inserts.
InsertedRow(r, publicUrl, thumbnailUrl) ==
  [title |-> r.title,
   download_url |-> IF r.file.ext = "psd" THEN thumbnailUrl ELSE publicUrl,
   psd_url |-> IF r.file.ext = "psd" THEN publicUrl ELSE NULL,
   is_editable |-> r.isEditable]

InitUpload ==
  /\ formData = EmptyForm
  /\ saving = FALSE
  /\ uploadProgress = 0
  /\ progressTimers = {}
  /\ request = NULL
  /\ postPc = "idle"
  /\ storage = {}
  /\ rows = <<>>
  /\ response = NULL
  /\ submits = 0

\* handleInputChange: the admin fills the form in.
FillForm(f) ==
  /\ ~saving
  /\ submits < MaxSubmits
  /\ f # formData
  /\ formData' = f
  /\ UNCHANGED <<saving, uploadProgress, progressTimers, request, postPc,
                 storage, rows, response, submits, adminError>>

\* handleSave up to its await: the three validations in order; a form that
\* passes starts the progress interval and sends the request.
handleSave ==
  /\ ~saving
  /\ postPc = "idle"
  /\ submits < MaxSubmits
  /\ submits' = submits + 1
  /\ uploadProgress' = 0
  /\ IF FormError(formData) # NoMessage
       THEN /\ adminError' = FormError(formData)
            /\ saving' = FALSE
            /\ UNCHANGED <<progressTimers, request, postPc>>
       ELSE /\ adminError' = NoMessage
            /\ saving' = TRUE
            /\ progressTimers' = progressTimers \cup {submits + 1}
            /\ request' = [via |-> "form", sub |-> submits + 1,
                           title |-> formData.title, file |-> formData.file,
                           thumbnail |-> formData.thumbnail,
                           isEditable |-> formData.isEditable,
                           category |-> formData.category]
            /\ postPc' = "received"
  /\ UNCHANGED <<formData, storage, rows, response>>

ProgressTick_uncapped(k) ==
  /\ k \in progressTimers
  /\ IF uploadProgress >= 100
       THEN /\ progressTimers' = progressTimers \ {k}
            /\ UNCHANGED uploadProgress
       ELSE /\ uploadProgress' = uploadProgress + 10
            /\ UNCHANGED progressTimers
  /\ UNCHANGED <<formData, saving, request, postPc, storage, rows, response,
                 submits, adminError>>

\* One firing of the progress interval of submission k: +10 below 90, else
\* the interval clears itself.
ProgressTick(k) ==
  /\ k \in progressTimers
  /\ IF uploadProgress >= 90
       THEN /\ progressTimers' = progressTimers \ {k}
            /\ UNCHANGED uploadProgress
       ELSE /\ uploadProgress' = uploadProgress + 10
            /\ UNCHANGED progressTimers
  /\ UNCHANGED <<formData, saving, request, postPc, storage, rows, response,
                 submits, adminError>>

\* A request reaches POST /api/upload without passing through the form.
DirectPost(body) ==
  /\ postPc = "idle"
  /\ submits < MaxSubmits
  /\ submits' = submits + 1
  /\ request' = [via |-> "direct", sub |-> submits + 1, title |-> body.title,
                 file |-> body.file, thumbnail |-> body.thumbnail,
                 isEditable |-> body.isEditable, category |-> body.category]
  /\ postPc' = "received"
  /\ UNCHANGED <<formData, saving, uploadProgress, progressTimers, storage,
                 rows, response, adminError>>

\* NextResponse.json({ error }, { status }) / the 200 answer.
Respond(status, error) ==
  /\ response' = [status |-> status, error |-> error, sub |-> request.sub]
  /\ postPc' = "responded"

\* POST: the form data is read and validated; a valid request goes on to
\* the upload of the main file.
PostValidate ==
  /\ postPc = "received"
  /\ IF PostError(request) # NoMessage
       THEN Respond(400, PostError(request))
       ELSE postPc' = "main" /\ UNCHANGED response
  /\ UNCHANGED <<formData, saving, uploadProgress, progressTimers, request,
                 storage, rows, submits, adminError>>

\* storage.upload(uploadPath, buffer) of the main file.
PostUploadMain(ok) ==
  /\ postPc = "main"
  /\ IF ok
       THEN /\ storage' = storage \cup {MainObject(request)}
            /\ postPc' = IF request.thumbnail # NULL THEN "thumb" ELSE "insert"
            /\ UNCHANGED response
       ELSE /\ Respond(400, MsgUpload)
            /\ UNCHANGED storage
  /\ UNCHANGED <<formData, saving, uploadProgress, progressTimers, request,
                 rows, submits, adminError>>

\* storage.upload(thumbnailPath, thumbnailBuffer), when a thumbnail came.
PostUploadThumbnail(ok) ==
  /\ postPc = "thumb"
  /\ IF ok
       THEN /\ storage' = storage \cup {ThumbObject(request)}
            /\ postPc' = "insert"
            /\ UNCHANGED response
       ELSE /\ Respond(400, MsgThumbUpload)
            /\ UNCHANGED storage
  /\ UNCHANGED <<formData, saving, uploadProgress, progressTimers, request,
                 rows, submits, adminError>>

\* from('posters').insert([...]) and the answer.
PostInsert(ok) ==
  /\ postPc = "insert"
  /\ LET publicUrl == PublicUrl(MainObject(request))
         thumbnailUrl == IF request.thumbnail # NULL
                           THEN PublicUrl(ThumbObject(request)) ELSE EmptyUrl
     IN  IF ok
           THEN /\ rows' = Append(rows, InsertedRow(request, publicUrl,
                                                    thumbnailUrl))
                /\ Respond(200, NoMessage)
           ELSE /\ Respond(400, MsgInsert)
                /\ UNCHANGED rows
  /\ UNCHANGED <<formData, saving, uploadProgress, progressTimers, request,
                 storage, submits, adminError>>

\* handleSave after its await: an answer that is not ok is thrown and shown;
\* an ok answer stops the interval, sets progress 100 and clears the form.
SaveAnswered ==
  /\ postPc = "responded"
  /\ request.via = "form"
  /\ IF response.status # 200
       THEN /\ adminError' = response.error
            /\ UNCHANGED <<uploadProgress, progressTimers, formData>>
       ELSE /\ progressTimers' = progressTimers \ {request.sub}
            /\ uploadProgress' = 100
            /\ formData' = EmptyForm
            /\ UNCHANGED adminError
  /\ saving' = FALSE
  /\ request' = NULL
  /\ postPc' = "idle"
  /\ response' = NULL
  /\ UNCHANGED <<storage, rows, submits>>

\* handleSave after its await, when fetch rejects (the request did not reach
\* the server): the exception is caught and shown; the interval is left
\* running.
SaveFetchFailed ==
  /\ postPc = "received"
  /\ request.via = "form"
  /\ adminError' = MsgNetwork
  /\ saving' = FALSE
  /\ request' = NULL
  /\ postPc' = "idle"
  /\ UNCHANGED <<formData, uploadProgress, progressTimers, storage, rows,
                 response, submits>>

\* The sender of a direct request has its answer.
DirectAnswered ==
  /\ postPc = "responded"
  /\ request.via = "direct"
  /\ request' = NULL
  /\ postPc' = "idle"
  /\ response' = NULL
  /\ UNCHANGED <<formData, saving, uploadProgress, progressTimers, storage,
                 rows, submits, adminError>>

NextUpload ==
  \/ /\ \E f \in FormInputs : FillForm(f)
     /\ UNCHANGED <<editVars, dlVars, adminRest, filterVars>>
  \/ /\ handleSave
     /\ UNCHANGED <<editVars, dlVars, adminRest, filterVars>>
  \/ /\ \E k \in 1..MaxSubmits : ProgressTick(k)
     /\ UNCHANGED <<editVars, dlVars, adminRest, filterVars>>
  \/ /\ \E body \in RequestBodies : DirectPost(body)
     /\ UNCHANGED <<editVars, dlVars, adminRest, filterVars>>
  \/ /\ PostValidate
     /\ UNCHANGED <<editVars, dlVars, adminRest, filterVars>>
  \/ /\ \E ok \in BOOLEAN : PostUploadMain(ok)
     /\ UNCHANGED <<editVars, dlVars, adminRest, filterVars>>
  \/ /\ \E ok \in BOOLEAN : PostUploadThumbnail(ok)
     /\ UNCHANGED <<editVars, dlVars, adminRest, filterVars>>
  \/ /\ \E ok \in BOOLEAN : PostInsert(ok)
     /\ UNCHANGED <<editVars, dlVars, adminRest, filterVars>>
  \/ /\ SaveAnswered
     /\ UNCHANGED <<editVars, dlVars, adminRest, filterVars>>
  \/ /\ SaveFetchFailed
     /\ UNCHANGED <<editVars, dlVars, adminRest, filterVars>>
  \/ /\ DirectAnswered
     /\ UNCHANGED <<editVars, dlVars, adminRest, filterVars>>

Init == InitEdit /\ InitDl /\ InitAdmin /\ InitUpload /\ InitFilter

SpecEdit == Init /\ [][NextEdit]_vars

SpecZoom == Init /\ [][NextZoom]_vars

SpecDl == Init /\ [][NextDl]_vars

SpecAdmin == Init /\ [][NextAdmin]_vars

SpecUpload == Init /\ [][NextUpload]_vars

\* The dashboard mounted with any of the catalogs explored.
InitBrowse ==
  InitEdit /\ InitGallery /\ InitAdmin /\ InitUpload /\ InitFilter

SpecFilter == InitBrowse /\ [][NextFilter]_vars

(***************************************************************************)
(* Claims about the customization session (SpecEdit).                      *)
(***************************************************************************)
\* position + size * zoom stays inside the canvas, on both axes.
InCanvas(pos, w, h, z) ==
  /\ RLe(R(0), pos.x)
  /\ RLe(R(0), pos.y)
  /\ RLe(RAdd(pos.x, RMul(w, Zoom(z))), R(CanvasWidth))
  /\ RLe(RAdd(pos.y, RMul(h, Zoom(z))), R(CanvasHeight))

\* C1: in a customization session, after any sequence of drags, resize
\* gestures, image-size buttons and zoom operations, the image layer and
\* the text layer (with its rendered box) lie inside the 400x280 canvas:
\* 0 <= x, 0 <= y, x + width*zoom <= 400, y + height*zoom <= 280.
C1_LayersStayInCanvas ==
  editingPoster # NULL =>
    /\ image # NULL =>
         InCanvas(imagePosition, imageSize.width, imageSize.height, zoomLevel)
    /\ name # "" =>
         InCanvas(textPosition, R(textBox[1]), R(textBox[2]), zoomLevel)

(***************************************************************************)
(* Claims about the download counter (SpecDl).                             *)
(***************************************************************************)
\* The download_count the local catalog shows for poster id.
LocalCount(ps, id) ==
  ps[CHOOSE i \in 1..Len(ps) : ps[i].id = id].download_count

\* C2: the persisted download_count of a poster never decreases: every
\* write by a gallery download or a customized download stores a value
\* greater than or equal to the value persisted just before it.
C2_CountNeverDecreases ==
  [][\A id \in PosterIds : db'[id] >= db[id]]_vars

\* The step in which the call in slot s learns that ... (by its position).
FetchFailed(s) == dl[s].pc = "sleep" /\ dl'[s].pc = "idle"
UpdateFailed(s) == dl[s].pc = "update" /\ dl'[s].pc = "idle"
UpdateSucceeded(s) == dl[s].pc = "update" /\ dl'[s].pc = "asset"
CallEnded(s) == dl[s].pc # "idle" /\ dl'[s].pc = "idle"

\* C3: for a gallery download whose count fetch returned n: when the count
\* update succeeds, n+1 is persisted and the local catalog entry shows n+1;
\* when the count fetch or the count update fails, an error is shown, the
\* local catalog is unchanged and no file save is triggered.
C3_DownloadCountsOrReports ==
  [][\A s \in Slots :
       /\ UpdateSucceeded(s) =>
            /\ db'[dl[s].id] = dl[s].posterData + 1
            /\ LocalCount(posters', dl[s].id) = dl[s].posterData + 1
       /\ (FetchFailed(s) \/ UpdateFailed(s)) =>
            /\ errorMessage' = MsgCount
            /\ posters' = posters
            /\ saves' = saves]_vars

\* A download has raised the count after the other browser had raised it,
\* and the local catalog shows the persisted value.
C3_Witness ==
  \E s \in Slots :
    /\ dl[s].pc = "asset"
    /\ db[dl[s].id] = 2
    /\ LocalCount(posters, dl[s].id) = 2

\* C4: every gallery download call, whether it completes or fails at the
\* count fetch, the count update or the asset fetch, ends with the cooldown
\* entry of its poster removed from countdowns.
C4_CooldownClearedAtEnd ==
  [][\A s \in Slots : CallEnded(s) => ~HasEntry(countdowns', dl[s].id)]_vars

\* A call has ended in a failed asset fetch and left no cooldown entry.
C4_Witness ==
  /\ errorMessage = MsgDownload
  /\ \A s \in Slots : dl[s].pc = "idle"
  /\ \A id \in PosterIds : ~HasEntry(countdowns, id)

(***************************************************************************)
(* Claims about the admin catalog (SpecAdmin).                             *)
(***************************************************************************)
\* C5: the admin catalog never holds two entries with the same id, in any
\* interleaving of the initial bulk fetch with realtime INSERT / UPDATE /
\* DELETE events.
C5_CatalogIdsUnique ==
  \A i, j \in 1..Len(adminPosters) :
    adminPosters[i].id = adminPosters[j].id => i = j

\* The step in which the handler is called with an event of type ty.
Handled(ty) ==
  /\ events # <<>>
  /\ Head(events).type = ty
  /\ events' = Tail(events)
  /\ mounted'

\* C6: given a realtime INSERT event for a record, the handler places that
\* record at the front of the cached sequence exactly once, all previously
\* cached entries following it in their previous order.
C6_InsertPrepends ==
  [][Handled("INSERT") =>
       /\ Len(adminPosters') = Len(adminPosters) + 1
       /\ adminPosters'[1] = Head(events).row
       /\ \A i \in 1..Len(adminPosters) :
            adminPosters'[i + 1] = adminPosters[i]]_vars

\* An INSERT event has been handled: its record leads a catalog that held
\* other entries before.
C6_Witness ==
  /\ lastEvent # NULL
  /\ lastEvent.type = "INSERT"
  /\ Len(adminPosters) >= 2
  /\ adminPosters[1] = lastEvent.row
  /\ adminPosters[2].id # lastEvent.row.id

\* s without its entries of the given id, order kept.
RECURSIVE Without(_, _)
Without(s, id) ==
  IF s = <<>> THEN <<>>
  ELSE IF Head(s).id = id THEN Without(Tail(s), id)
  ELSE <<Head(s)>> \o Without(Tail(s), id)

\* C7: an UPDATE event replaces the cached entry of the same id by the new
\* record at the same index; a DELETE event removes the entry of the same
\* id; every other entry and the order of the remaining entries are
\* unchanged, and an event whose id matches no entry changes nothing.
C7_UpdateDeleteFrame ==
  [][/\ Handled("UPDATE") =>
          /\ Len(adminPosters') = Len(adminPosters)
          /\ \A i \in 1..Len(adminPosters) :
               adminPosters'[i] =
                 IF adminPosters[i].id = Head(events).row.id
                   THEN Head(events).row ELSE adminPosters[i]
     /\ Handled("DELETE") =>
          adminPosters' = Without(adminPosters, Head(events).row.id)
     /\ (Handled("UPDATE") \/ Handled("DELETE")) =>
          ((\A i \in 1..Len(adminPosters) :
               adminPosters[i].id # Head(events).row.id)
             => adminPosters' = adminPosters)]_vars

\* An UPDATE event has been handled: its record sits behind an entry of
\* another id, which stayed in front.
C7_Witness ==
  /\ lastEvent # NULL
  /\ lastEvent.type = "UPDATE"
  /\ Len(adminPosters) >= 2
  /\ adminPosters[2] = lastEvent.row
  /\ adminPosters[1].id # lastEvent.row.id

(***************************************************************************)
(* Upload pipeline claims.                                                 *)
(***************************************************************************)
\* A request POST is serving, or about to answer, that is an editable psd
\* without a thumbnail.
EditablePsdWithoutThumbnail ==
  /\ request # NULL
  /\ request.isEditable
  /\ request.file # NULL
  /\ request.file.ext = "psd"
  /\ request.thumbnail = NULL

\* The submission a row came from (its asset's URL names it).
RowSub(r) == IF r.psd_url # NULL THEN r.psd_url.sub ELSE r.download_url.sub

\* C8: a submission that is editable, whose asset is a psd and that has no
\* thumbnail causes no storage upload and no table insert: while it is being
\* handled, no stored object and no row belongs to it.
C8_EditablePsdNeedsThumbnail ==
  EditablePsdWithoutThumbnail =>
    /\ \A o \in storage : o.sub # request.sub
    /\ \A i \in 1..Len(rows) : RowSub(rows[i]) # request.sub

\* The step in which handleSave runs its validations.
FormSubmitted ==
  /\ submits' = submits + 1
  /\ (request' = NULL \/ request'.via = "form")

\* The step in which POST runs its validations.
PostValidated == postPc = "received" /\ postPc' \notin {"received", "idle"}

\* C9: with the other validations passed, handleSave and POST each accept a
\* file and thumbnail of at most 52,428,800 bytes and reject a file or a
\* thumbnail of 52,428,801 bytes with the size message; the rejecting step
\* uploads and inserts nothing, and nothing is stored or inserted for a
\* request answered with the size message.
C9_SizeLimitAtBoundary ==
  [][/\ ( /\ FormSubmitted
          /\ formData.title # ""
          /\ formData.file # NULL
          /\ ~(formData.isEditable /\ formData.file.ext = "psd"
               /\ formData.thumbnail = NULL) )
        => IF /\ formData.file.size <= 52428800
              /\ (formData.thumbnail = NULL
                  \/ formData.thumbnail.size <= 52428800)
             THEN /\ request' # NULL
                  /\ request'.file = formData.file
                  /\ request'.thumbnail = formData.thumbnail
                  /\ adminError' = NoMessage
             ELSE /\ adminError' = MsgSize
                  /\ ~saving'
                  /\ request' = NULL
                  /\ postPc' = "idle"
                  /\ storage' = storage
                  /\ rows' = rows
     /\ ( /\ PostValidated
          /\ request.file # NULL
          /\ request.title # ""
          /\ request.category # "" )
        => IF /\ request.file.size <= 52428800
              /\ (request.thumbnail = NULL
                  \/ request.thumbnail.size <= 52428800)
             THEN postPc' = "main"
             ELSE /\ postPc' = "responded"
                  /\ response' = [status |-> 400, error |-> MsgSize,
                                  sub |-> request.sub]
                  /\ storage' = storage
                  /\ rows' = rows
     /\ (postPc = "responded" /\ response.error = MsgSize)
        => /\ \A o \in storage : o.sub # request.sub
           /\ \A i \in 1..Len(rows) : RowSub(rows[i]) # request.sub
    ]_vars

\* A form whose file and thumbnail are both exactly 52,428,800 bytes passed
\* handleSave and then POST's validation.
C9_Witness ==
  /\ postPc = "main"
  /\ request.via = "form"
  /\ request.file.size = 52428800
  /\ request.thumbnail # NULL
  /\ request.thumbnail.size = 52428800

\* The step in which POST inserts a row.
RowInserted == postPc = "insert" /\ Len(rows') = Len(rows) + 1

\* C10 as stated: the inserted row has the thumbnail's URL as download_url
\* and the asset's URL as psd_url if a thumbnail was supplied, and the
\* asset's own URL as download_url otherwise.
C10_UrlsFollowThumbnail ==
  [][RowInserted =>
       LET r == rows'[Len(rows')]
       IN  IF request.thumbnail # NULL
             THEN /\ ThumbObject(request) \in storage
                  /\ r.download_url = PublicUrl(ThumbObject(request))
                  /\ r.psd_url = PublicUrl(MainObject(request))
             ELSE r.download_url = PublicUrl(MainObject(request))
    ]_vars

\* C10, amended: a supplied thumbnail is stored as an object of its own; if
\* the asset is a psd, psd_url is the asset's URL and download_url is the
\* thumbnail's URL when one was supplied and the empty string otherwise; if
\* the asset is not a psd, download_url is the asset's own URL and psd_url is
\* null, whether or not a thumbnail was supplied.
C10_UrlsFollowAssetType ==
  [][RowInserted =>
       LET r == rows'[Len(rows')]
       IN  /\ request.thumbnail # NULL =>
                /\ ThumbObject(request) \in storage
                /\ ThumbObject(request) # MainObject(request)
           /\ MainObject(request) \in storage
           /\ IF request.file.ext = "psd"
                THEN /\ r.psd_url = PublicUrl(MainObject(request))
                     /\ r.download_url =
                          IF request.thumbnail # NULL
                            THEN PublicUrl(ThumbObject(request))
                            ELSE EmptyUrl
                ELSE /\ r.download_url = PublicUrl(MainObject(request))
                     /\ r.psd_url = NULL
    ]_vars

\* A row for an asset that is not a psd was inserted while a thumbnail of the
\* same submission is in storage.
C10_Witness ==
  \E i \in 1..Len(rows) :
    /\ rows[i].psd_url = NULL
    /\ rows[i].download_url = [dir |-> "thumbnails", of |-> "asset",
                               sub |-> rows[i].download_url.sub]
    /\ [dir |-> "thumbnails", of |-> "thumb",
        sub |-> rows[i].download_url.sub] \in storage

C12_PointerUpReleasesListeners ==
  [][/\ Len(listeners') < Len(listeners) => listeners' = <<>>
     /\ ( /\ listeners = <<>>
          /\ \E cx \in Pointer, cy \in Pointer : handleResizeMove(cx, cy) )
        => UNCHANGED <<imageSize, imagePosition, imageRotation>>
    ]_vars

\* A resize gesture took the image to width 160 and was ended by pointer-up;
\* pointer moves have been delivered since.
C12_Witness ==
  /\ editingPoster # NULL
  /\ listeners = <<>>
  /\ imageSize.width = R(160)
  /\ editOps = 4

\* C13: at any time the window listeners of at most one resize/rotate
\* gesture are attached.
C13_OneGestureAtATime == Len(listeners) <= 1

(***************************************************************************)
(* Gallery filter and sort claims.                                         *)
(***************************************************************************)
\* The place of the poster with this id in the catalog.
PlaceOf(ps, id) == CHOOSE k \in 1..Len(ps) : ps[k].id = id

\* The count the claim assigns to an entry: an absent count is 0.
ShownCount(p) == IF p.download_count = NoCount THEN 0 ELSE p.download_count

\* C14: in 'popular' mode the displayed list has non-increasing
\* download_count (absent counted as 0), and entries of equal count are in
\* the order they have in the catalog.
C14_PopularSortedAndStable ==
  sortBy = "popular" =>
    \A i, j \in 1..Len(filteredPosters) :
      i < j =>
        /\ ShownCount(filteredPosters[i]) >= ShownCount(filteredPosters[j])
        /\ ShownCount(filteredPosters[i]) = ShownCount(filteredPosters[j])
           => PlaceOf(posters, filteredPosters[i].id)
                < PlaceOf(posters, filteredPosters[j].id)

\* All four posters are shown by popularity, in another order than the
\* catalog's, with an absent count next to a count of 0.
C14_Witness ==
  /\ sortBy = "popular"
  /\ Len(filteredPosters) = 4
  /\ filteredPosters # posters
  /\ \E i \in 1..3 :
       /\ filteredPosters[i].download_count = NoCount
       /\ filteredPosters[i + 1].download_count = 0

\* Letters equal up to case.
SameLetter(a, b) ==
  a = b \/ \E k \in 1..26 : {a, b} = {UpperCase[k], LowerCase[k]}

\* q occurs in str as a substring, case ignored.
ContainsIgnoringCase(str, q) ==
  \E i \in 0..(Len(str) - Len(q)) :
    \A j \in 1..Len(q) : SameLetter(str[i + j], q[j])

\* The places of the catalog entries the inputs select.
Selected ==
  {k \in 1..Len(posters) :
     /\ \/ ContainsIgnoringCase(posters[k].title, searchQuery)
        \/ ContainsIgnoringCase(posters[k].category, searchQuery)
     /\ selectedCategory = All \/ posters[k].category = selectedCategory}

\* The displayed list is a rearrangement of the selected entries, in the
\* order of the sort mode.
DisplayedAsSelected ==
  /\ Len(filteredPosters) = Cardinality(Selected)
  /\ \A k \in Selected :
       \E i \in 1..Len(filteredPosters) : filteredPosters[i] = posters[k]
  /\ \A i, j \in 1..Len(filteredPosters) :
       i < j =>
         IF sortBy = "popular"
           THEN ShownCount(filteredPosters[i]) >= ShownCount(filteredPosters[j])
           ELSE filteredPosters[i].created_at >= filteredPosters[j].created_at

\* C15: the displayed list is always the selected entries in sort order, a
\* change of query, category or sort mode leaves the catalog as it is, and
\* no step reorders the catalog.
C15_DisplayedIsFilteredSorted ==
  /\ []DisplayedAsSelected
  /\ [][/\ ( \/ searchQuery' # searchQuery
             \/ selectedCategory' # selectedCategory
             \/ sortBy' # sortBy ) => posters' = posters
        /\ Len(posters') = Len(posters)
        /\ \A k \in 1..Len(posters) : posters'[k].id = posters[k].id
       ]_vars

\* The query "AR" selects Party by its title and the Marriage poster by its
\* category, out of four.
C15_Witness ==
  /\ searchQuery = <<"A", "R">>
  /\ selectedCategory = All
  /\ Len(posters) = 4
  /\ Len(filteredPosters) = 2
  /\ \E i \in 1..2 : filteredPosters[i].category = Marriage
  /\ \E i \in 1..2 : filteredPosters[i].category = Birthday

\* C16: after every pointer move delivered to a resize gesture, with either
\* handle and at the zoom level and pointer position of the move, the
\* image's width/height ratio is the ratio of the size captured when the
\* gesture started (compared by cross-multiplication).
C16_ResizeKeepsAspectRatio ==
  [][(\E cx \in Pointer, cy \in Pointer : handleResizeMove(cx, cy))
       => \A k \in 1..Len(listeners) :
            listeners[k].kind = "resize"
              => RMul(imageSize'.width, listeners[k].startHeight)
                   = RMul(imageSize'.height, listeners[k].startWidth)
    ]_vars

\* A top-left gesture started at zoom 1.1 has changed the image's size.
C16_Witness ==
  /\ Len(listeners) = 1
  /\ listeners[1].kind = "resize"
  /\ listeners[1].handle = "top-left"
  /\ listeners[1].zoom = 11
  /\ imageSize.width # listeners[1].startWidth

\* The pointer travel d, in logical units at zoom z (tenths).
Logical(d, z) == RDiv(R(d), Zoom(z))

\* A move of pos by the pointer travel d is not cut off at 0 or at the far
\* edge, for a layer of the scaled extent `scaled`.
NotClamped(pos, d, scaled, limit, z) ==
  /\ RLe(R(0), RAdd(pos, Logical(d, z)))
  /\ RLe(RAdd(pos, Logical(d, z)), RSub(R(limit), scaled))

\* For one coordinate: the drag step took it from pos to pos2 by d / zoom,
\* and the drag by -d from there, when not clamped either, leads back.
DragIsInvertible(pos, pos2, d, scaled, limit, z) ==
  NotClamped(pos, d, scaled, limit, z) =>
    /\ pos2 = RAdd(pos, Logical(d, z))
    /\ NotClamped(pos2, -d, scaled, limit, z)
       => ClampMove(pos2, -d, scaled, limit, z) = pos

\* The drag computation at every zoom level, for a layer 100 wide.
DragAtEveryZoom ==
  \A z \in 5..30, d \in DragDeltas, pos \in {0, 50, 200} :
    LET scaled == RMul(R(100), Zoom(z))
    IN  DragIsInvertible(R(pos), ClampMove(R(pos), d, scaled, 400, z), d,
                         scaled, 400, z)

\* C17: every drag of the text or image layer by a pointer travel d, at the
\* zoom level it happens at, changes each coordinate that is not clamped by
\* d / zoomLevel, and the drag by -d at the same zoom, when not clamped
\* either, returns that coordinate to where it was; the same holds of the
\* drag computation at every zoom level from 0.5 to 3.0 in steps of 0.1,
\* for a layer 100 wide at 0, 50 and 200.
C17_DragInverse ==
  [][/\ DragAtEveryZoom
     /\ \A dx \in DragDeltas, dy \in DragDeltas :
          handleImageDrag(dx, dy) =>
            /\ DragIsInvertible(imagePosition.x, imagePosition'.x, dx,
                 RMul(imageSize.width, Zoom(zoomLevel)), 400, zoomLevel)
            /\ DragIsInvertible(imagePosition.y, imagePosition'.y, dy,
                 RMul(imageSize.height, Zoom(zoomLevel)), 280, zoomLevel)
     /\ \A dx \in DragDeltas, dy \in DragDeltas :
          handleTextDrag(dx, dy) =>
            /\ DragIsInvertible(textPosition.x, textPosition'.x, dx,
                 RMul(R(textBox[1]), Zoom(zoomLevel)), 400, zoomLevel)
            /\ DragIsInvertible(textPosition.y, textPosition'.y, dy,
                 RMul(R(textBox[2]), Zoom(zoomLevel)), 280, zoomLevel)
    ]_vars

\* At zoom 1.1 the image was dragged by (45, -30) pointer pixels from its
\* default place, unclamped: it moved by 45/1.1 and -30/1.1.
C17_Witness ==
  /\ zoomLevel = 11
  /\ image # NULL
  /\ imagePosition = [x |-> RAdd(R(50), RDiv(R(45), Zoom(11))),
                      y |-> RSub(R(180), RDiv(R(30), Zoom(11)))]

\* C18: the zoom level always lies in [0.5, 3.0] (5..30 tenths), however
\* many times the zoom buttons are pressed, and a setZoom call changes only
\* the zoom level: the text and image positions, the image size, the font
\* size and both rotations are the same after it as before it.
C18_ZoomClampedAndIsolated ==
  /\ [](zoomLevel >= ZoomMin /\ zoomLevel <= ZoomMax)
  /\ [][\A d \in {-1, 1} :
          handleZoom(d) =>
            /\ zoomLevel' = IF zoomLevel + d < ZoomMin THEN ZoomMin
                            ELSE IF zoomLevel + d > ZoomMax THEN ZoomMax
                            ELSE zoomLevel + d
            /\ textPosition' = textPosition
            /\ imagePosition' = imagePosition
            /\ imageSize' = imageSize
            /\ fontSize' = fontSize
            /\ textRotation' = textRotation
            /\ imageRotation' = imageRotation]_vars

\* The zoom has been pushed to an end of its range (where the next click in
\* the same direction is clamped) with a resized image and a changed font.
C18_Witness ==
  /\ editingPoster # NULL
  /\ zoomLevel \in {ZoomMin, ZoomMax}
  /\ imageSize.width # R(100)
  /\ fontSize # DefaultFontSize

(***************************************************************************)
(* Customized download claims.                                             *)
(***************************************************************************)
\* C19: when handleEditSave is invoked and the canvas surface is not
\* available, an error is reported and the operation aborts: no file save is
\* triggered, no download_count update is issued (none is started and the
\* persisted counts stay as they are), and the overlay model, the zoom level
\* and the editing poster are unchanged.
C19_NoCanvasReportsAndAborts ==
  [][handleEditSave(FALSE) =>
       /\ errorMessage' = MsgCanvas
       /\ saves' = saves
       /\ save' = save
       /\ db' = db
       /\ posters' = posters
       /\ <<name, image, textPosition, imagePosition, imageSize, textBox>>' =
            <<name, image, textPosition, imagePosition, imageSize, textBox>>
       /\ styleVars' = styleVars
       /\ zoomLevel' = zoomLevel
       /\ editingPoster' = editingPoster]_vars

\* The missing canvas has been reported in a session whose overlay and zoom
\* are not the defaults; the session is still open and nothing was saved.
C19_Witness ==
  /\ errorMessage = MsgCanvas
  /\ editingPoster # NULL
  /\ image # NULL
  /\ fontSize # DefaultFontSize
  /\ zoomLevel # 10
  /\ save.pc = "idle"
  /\ saves = 0

\* C20: after a successful rasterization in handleEditSave the file save is
\* triggered and an update raising the poster's download_count by 1 is
\* issued (when it succeeds the persisted count is one more than it was);
\* if that update fails, the error is reported, the file save already
\* triggered is not undone, and the local catalog count of the poster is
\* not changed.
C20_SaveThenCountPlusOne ==
  [][/\ SaveRenderOk =>
          /\ saves' = saves + 1
          /\ save'.pc = "update"
     /\ SaveUpdateOk =>
          db'[save.poster.id] = db[save.poster.id] + 1
     /\ SaveUpdateFail =>
          /\ errorMessage' = MsgCount
          /\ saves' = saves
          /\ db' = db
          /\ LocalCount(posters', save.poster.id) =
               LocalCount(posters, save.poster.id)]_vars

\* C21: the realtime subscription opened at mount is released at teardown:
\* once the view is torn down the channel is not joined and carries nothing
\* for the handler, and no step after teardown changes the catalog, whether
\* the initial fetch succeeded, failed or is still unanswered.
C21_TeardownReleasesSubscription ==
  /\ [](~mounted => (~subscribed /\ events = <<>>))
  /\ [][~mounted => adminPosters' = adminPosters]_vars

\* The view was torn down after the handler had received an event, and the
\* backend table has since moved away from the catalog.
C21_Witness ==
  /\ ~mounted
  /\ lastEvent # NULL
  /\ fetchPc = "done"
  /\ Len(table) # Len(adminPosters)

\* C22: a pointer move delivered to a resize gesture with the top-left
\* handle leaves the opposite (bottom-right) corner of the image, position +
\* size, where it was: the position is adjusted together with the size.
C22_TopLeftKeepsOppositeCorner ==
  [][(/\ Len(listeners) = 1
      /\ listeners[1].kind = "resize"
      /\ listeners[1].handle = "top-left"
      /\ \E cx \in Pointer, cy \in Pointer : handleResizeMove(cx, cy))
       => /\ RAdd(imagePosition'.x, imageSize'.width)
               = RAdd(imagePosition.x, imageSize.width)
          /\ RAdd(imagePosition'.y, imageSize'.height)
               = RAdd(imagePosition.y, imageSize.height)]_vars

\* C23: each text-rotation button press stores the previous rotation plus
\* the step (+15 or -15) wrapped modulo 360, so the stored text rotation
\* always lies in [0, 360).
C23_TextRotationWrapped ==
  /\ [](textRotation >= 0 /\ textRotation < 360)
  /\ [][\A d \in {-15, 15} :
          handleRotationChange("text", d)
            => textRotation' = (textRotation + d) % 360]_vars

\* C24: handleSave validates in the order (a) title and asset present,
\* (b) thumbnail present for an editable psd asset, (c) asset and thumbnail
\* of at most 50 MiB, and reports the first check that fails in this order;
\* when a check fails no request is sent (nothing reaches POST, no progress
\* timer is started) and the saving state is cleared.
C24_ValidationOrderFailFast ==
  [][FormSubmitted =>
       LET f == formData
           a == f.title = "" \/ f.file = NULL
           b == f.isEditable /\ f.file.ext = "psd" /\ f.thumbnail = NULL
           c == \/ f.file.size > 52428800
                \/ (f.thumbnail # NULL /\ f.thumbnail.size > 52428800)
           first == IF a THEN MsgRequired
                    ELSE IF b THEN MsgThumbnail
                    ELSE IF c THEN MsgSize
                    ELSE NoMessage
       IN  /\ adminError' = first
           /\ first # NoMessage =>
                /\ ~saving'
                /\ request' = request
                /\ postPc' = "idle"
                /\ progressTimers' = progressTimers
                /\ storage' = storage
                /\ rows' = rows]_vars

\* An editable psd asset over the limit was submitted without a thumbnail:
\* checks (b) and (c) both fail and (b) is the one reported.
C24_Witness ==
  /\ adminError = MsgThumbnail
  /\ formData.file # NULL
  /\ formData.file.size > MAX_FILE_SIZE
  /\ ~saving
  /\ request = NULL
  /\ submits = 1

(***************************************************************************)
(* Gallery download claims: cooldown, counting and timers.                 *)
(***************************************************************************)
\* C25: while a gallery download call for a poster is in progress (from its
\* invocation until it has cleared the cooldown entry, the backend calls
\* after the countdown included) the download button of that poster is
\* disabled, so no second call for the poster starts meanwhile.
C25_ButtonDisabledWhileInProgress ==
  /\ [](\A s \in Slots :
          dl[s].pc # "idle" => ~ButtonEnabled(countdowns, dl[s].id))
  /\ [][\A s \in Slots, id \in PosterIds :
          DlStart(s, id) => \A t \in Slots : ~(dl[t].pc # "idle" /\ dl[t].id = id)
       ]_vars

\* The ids of the rows of a sequence of posters.
IdsOf(ps) == {ps[i].id : i \in 1..Len(ps)}

\* C26: once the initial fetch has completed (successfully) and every event
\* the channel carried has been delivered to the handler, the admin catalog
\* holds exactly the posters of the backend table: no deleted poster
\* remains and no inserted poster is missing.
C26_CatalogEventuallyConsistent ==
  ( /\ mounted
    /\ subscribed
    /\ fetchPc = "done"
    /\ adminError = NoMessage
    /\ events = <<>> )
  => IdsOf(adminPosters) = IdsOf(table)

\* C27: no increment of a successful gallery download is lost: as long as
\* only gallery downloads have written the count (no file has been saved
\* yet, so no customized download has got as far as its count update),
\* every successful count write of a gallery download, by this dashboard or
\* by another client, leaves the persisted download_count exactly one
\* higher than it was just before the write, so k successful calls raise it
\* by k.
C27_NoIncrementLost ==
  [][saves = 0 =>
       /\ \A s \in Slots :
            UpdateSucceeded(s) => db'[dl[s].id] = db[dl[s].id] + 1
       /\ (remote.pc = "update" /\ remote'.pc = "idle")
            => db'[remote.id] = db[remote.id] + 1]_vars

\* C28: when the count update of a customized download succeeds, the local
\* catalog's download_count of the poster equals the value that update wrote
\* to the backend, whatever happened to the poster's count between the
\* opening of the session and the save.
C28_LocalCountIsWrittenCount ==
  [][SaveUpdateOk =>
       LocalCount(posters', save.poster.id) = db'[save.poster.id]]_vars

\* C29: when a gallery download call has ended (it has cleared the cooldown
\* entry of its poster) the countdown timer it started is stopped, and a
\* firing of that timer never puts a cooldown entry for the poster back
\* after the call has ended.
C29_TimerStoppedWhenCallEnds ==
  /\ [](\A s \in Slots : dl[s].pc = "idle" => dl[s].interval = "off")
  /\ [][\A s \in Slots :
          (dl[s].pc = "idle" /\ DlTick(s))
            => ~HasEntry(countdowns', dl[s].id)]_vars

(***************************************************************************)
(* Session lifecycle claim.                                                *)
(***************************************************************************)
\* C30: whenever a customization session is opened (editingPoster goes from
\* null to a poster) the poster is editable and the overlay model holds its
\* defaults with zoom level 1: empty text, no image, text at (200,240),
\* image at (50,180) with size 100x100, font size 24 and both rotations 0,
\* whatever was in progress when the previous session ended.
C30_SessionOpensWithDefaults ==
  [][(editingPoster = NULL /\ editingPoster' # NULL) =>
       /\ editingPoster'.is_editable
       /\ name' = ""
       /\ image' = NULL
       /\ textPosition' = [x |-> R(200), y |-> R(240)]
       /\ imagePosition' = [x |-> R(50), y |-> R(180)]
       /\ imageSize' = [width |-> R(100), height |-> R(100)]
       /\ fontSize' = 24
       /\ textRotation' = 0
       /\ imageRotation' = 0
       /\ zoomLevel' = 10]_vars

====
